---------------------------- MODULE Spec2Model ----------------------------
(***************************************************************************)
(* A model of the Free Sleep Home Assistant integration:                   *)
(*   - FreeSleepData (coordinator.py): the snapshot and its derivations    *)
(*   - FreeSleepCoordinator._async_update_data: one refresh cycle          *)
(*   - FreeSleepApi (api.py): the write helpers, set_alarm in particular   *)
(*   - the entities' write handlers (switch.py, number.py, select.py)      *)
(*                                                                         *)
(* Time is counted in minutes.  An instant is an absolute minute count;    *)
(* minute 0 is a Monday 00:00 UTC.  An aware datetime is a record          *)
(* [wall, off]: the wall-clock minute count in its own zone and the zone's *)
(* UTC offset, so that its absolute instant is wall - off.                 *)
(***************************************************************************)
EXTENDS Integers, Sequences, FiniteSets, TLC

VARIABLES
    clock,      \* the wall clock, absolute minutes (what dt_util.now() reads)
    tz,         \* UTC offset of the configured Home Assistant time zone
    remote,     \* the Free Sleep server's resources
    data,       \* coordinator.data: the published FreeSleepData snapshot
    cycle,      \* the refresh cycle in progress (_async_update_data)
    calls,      \* the write requests the integration has sent to the server
    ret         \* the derivation evaluated last and what it returned

vars == <<clock, tz, remote, data, cycle, calls, ret>>

---------------------------------------------------------------------------
(* Bounds of the model *)

\* days of wall-clock time the model covers
MaxDays == 8

\* calls of write handlers in one behaviour
MaxCalls == 1

\* minutes the clock can advance during a single evaluation
MaxSkew == 1

\* minutes the clock is followed past the start in SpecSuppress
MaxTicks == 3

---------------------------------------------------------------------------
(* Python dictionaries are functions with a finite domain of string keys *)

EmptyDict == [k \in {} |-> 0]

\* dict.get(k, default)
Get(d, k, default) == IF k \in DOMAIN d THEN d[k] ELSE default

\* merged = dict(base); merged.update(upd)
DictUpdate(base, upd) ==
    [k \in (DOMAIN base) \cup (DOMAIN upd) |->
        IF k \in DOMAIN upd THEN upd[k] ELSE base[k]]

---------------------------------------------------------------------------
(* Calendar arithmetic on minute counts *)

\* datetime.hour of a wall-clock minute count
HourOf(wall) == (wall % 1440) \div 60

\* datetime.minute
MinuteOf(wall) == wall % 60

\* datetime.date(), as a day number
DateOf(wall) == wall \div 1440

\* date.weekday(): 0 is Monday
WeekdayOf(wall) == DateOf(wall) % 7

\* dt_util.now() when the clock reads c
Now(c) == [wall |-> c + tz, off |-> tz]

\* the instant an aware datetime denotes
Absolute(dt) == dt.wall - dt.off

\* now + timedelta(days=1)
PlusOneDay(dt) == [dt EXCEPT !.wall = dt.wall + 1440]

DAYS_OF_WEEK ==
    << "monday", "tuesday", "wednesday", "thursday",
       "friday", "saturday", "sunday" >>

SIDES == << "left", "right" >>

Sides == {SIDES[i] : i \in 1..Len(SIDES)}
Days == {DAYS_OF_WEEK[i] : i \in 1..Len(DAYS_OF_WEEK)}

---------------------------------------------------------------------------
(* Values returned by the derivations, in one shape *)

RNone == [kind |-> "none", b |-> FALSE, s |-> "", wall |-> 0, off |-> 0]
RBool(x) == [kind |-> "bool", b |-> x, s |-> "", wall |-> 0, off |-> 0]
RStr(x) == [kind |-> "str", b |-> FALSE, s |-> x, wall |-> 0, off |-> 0]
RDt(w, o) == [kind |-> "datetime", b |-> FALSE, s |-> "", wall |-> w, off |-> o]
RInt(x) == [kind |-> "int", b |-> FALSE, s |-> "", wall |-> x, off |-> 0]
RRaise(exc) == [kind |-> "raise", b |-> FALSE, s |-> exc, wall |-> 0, off |-> 0]

NoRet == [op |-> "", side |-> "", n1 |-> 0, n2 |-> 0, n3 |-> 0, val |-> RNone]

---------------------------------------------------------------------------
(* FreeSleepData._today_key *)

\* the hour test of the noon crossover
today_key_after_noon_hour(now) ==
    LET target == IF HourOf(now.wall) > 12 THEN PlusOneDay(now) ELSE now
    IN  DAYS_OF_WEEK[WeekdayOf(target.wall) + 1]

today_key(now) ==
    LET target == IF HourOf(now.wall) >= 12 THEN PlusOneDay(now) ELSE now
    IN  DAYS_OF_WEEK[WeekdayOf(target.wall) + 1]

---------------------------------------------------------------------------
(* Strings the server sends *)

\* An "HH:MM" time of day is kept as the parts str.split(":") yields.  A part
\* is the text of an integer ("num"), other text ("alpha") or no text
\* ("blank"); the empty string splits into one blank part.
NumPart(n) == [kind |-> "num", val |-> n]
AlphaPart == [kind |-> "alpha", val |-> 0]
BlankPart == [kind |-> "blank", val |-> 0]

EmptyStr == << BlankPart >>

\* f"{hour:02d}:{minute:02d}"
HHMM(h, m) == << NumPart(h), NumPart(m) >>

\* An ISO-8601 timestamp is kept by what dt_util.parse_datetime makes of it:
\*   "empty"    the empty string
\*   "garbage"  not well formatted: parse_datetime returns None
\*   "invalid"  well formatted, no valid datetime: parse_datetime raises ValueError
\*   "naive"    a datetime without UTC offset
\*   "aware"    a datetime with UTC offset
IsoEmpty == [kind |-> "empty", wall |-> 0, off |-> 0]
IsoGarbage == [kind |-> "garbage", wall |-> 0, off |-> 0]
IsoInvalid == [kind |-> "invalid", wall |-> 0, off |-> 0]
IsoNaive(w) == [kind |-> "naive", wall |-> w, off |-> 0]
IsoAware(w, o) == [kind |-> "aware", wall |-> w, off |-> o]

\* datetime.isoformat() of an aware datetime
isoformat(dt) == IsoAware(dt.wall, dt.off)

---------------------------------------------------------------------------
(* FreeSleepData: the helpers over the snapshot d *)

side_settings(d, side) == Get(d.settings, side, EmptyDict)

today_alarm(d, side, now) ==
    LET day == today_key(now)
    IN  Get(Get(Get(d.schedules, side, EmptyDict), day, EmptyDict),
            "alarm", EmptyDict)

tonight_alarm(d, side, now) == today_alarm(d, side, now)

alarm_override(d, side) ==
    Get(Get(side_settings(d, side), "scheduleOverrides", EmptyDict),
        "alarm", EmptyDict)

\* a variant that reads the alarm override
temp_schedule_override_alarm_key(d, side) ==
    Get(Get(side_settings(d, side), "scheduleOverrides", EmptyDict),
        "alarm", EmptyDict)

temp_schedule_override(d, side) ==
    Get(Get(side_settings(d, side), "scheduleOverrides", EmptyDict),
        "temperatureSchedules", EmptyDict)

\* try: expires = parse_datetime(expires_at); ...; return expires > now
\* with the exceptions in `caught` handled by "return False"
ExpiresAfter(expires_at, now, caught) ==
    LET raised ==
            CASE expires_at.kind = "invalid" -> "ValueError"
              [] expires_at.kind = "naive" -> "TypeError"
              [] OTHER -> ""
    IN  IF raised # ""
        THEN IF raised \in caught THEN RBool(FALSE) ELSE RRaise(raised)
        ELSE IF expires_at.kind = "garbage"
             THEN RBool(FALSE)
             ELSE RBool(Absolute(expires_at) > Absolute(now))

\* a variant that tests only "disabled"
is_alarm_disabled_tonight_no_expiry(d, side, now) ==
    RBool(Get(alarm_override(d, side), "disabled", FALSE))

\* a variant that compares the wall-clock readings, leaving out the UTC offsets
is_alarm_disabled_tonight_wall_clock(d, side, now) ==
    LET override == alarm_override(d, side)
        expires_at == Get(override, "expiresAt", IsoEmpty)
    IN  RBool(/\ Get(override, "disabled", FALSE)
              /\ expires_at.kind = "aware"
              /\ expires_at.wall > now.wall)

is_alarm_disabled_tonight(d, side, now) ==
    LET override == alarm_override(d, side)
    IN  IF ~Get(override, "disabled", FALSE)
        THEN RBool(FALSE)
        ELSE LET expires_at == Get(override, "expiresAt", IsoEmpty)
             IN  IF expires_at.kind = "empty"
                 THEN RBool(FALSE)
                 ELSE ExpiresAfter(expires_at, now, {"ValueError", "TypeError"})

is_temp_schedule_disabled_tonight(d, side, now) ==
    LET override == temp_schedule_override(d, side)
    IN  IF ~Get(override, "disabled", FALSE)
        THEN RBool(FALSE)
        ELSE LET expires_at == Get(override, "expiresAt", IsoEmpty)
             IN  IF expires_at.kind = "empty"
                 THEN RBool(FALSE)
                 ELSE ExpiresAfter(expires_at, now, {"ValueError", "TypeError"})

\* hour, minute = int(parts[0]), int(parts[1]): the exception it raises, if any
ParseHourMinuteError(parts) ==
    IF parts[1].kind # "num" THEN "ValueError"
    ELSE IF Len(parts) < 2 THEN "IndexError"
    ELSE IF parts[2].kind # "num" THEN "ValueError"
    ELSE ""

\* datetime(year, month, day, hour, minute, 0, tzinfo=tz) on the date of
\* wall-clock day number `date`: ValueError unless 0 <= hour < 24 and
\* 0 <= minute < 60
MakeDatetime(date, hour, minute) ==
    IF hour \in 0..23 /\ minute \in 0..59
    THEN RDt(date * 1440 + hour * 60 + minute, tz)
    ELSE RRaise("ValueError")

\* target_date: the date of now, or of now + 1 day from noon on
target_date(now) ==
    IF HourOf(now.wall) >= 12 THEN DateOf(PlusOneDay(now).wall)
    ELSE DateOf(now.wall)

\* a variant that takes the date of now
next_alarm_datetime_same_day(d, side, n1, n2, n3) ==
    LET alarm == today_alarm(d, side, n1)
        time_str == Get(alarm, "time", EmptyStr)
    IN  IF ~Get(alarm, "enabled", FALSE) THEN RNone
        ELSE IF is_alarm_disabled_tonight(d, side, n2).b THEN RNone
        ELSE IF time_str = EmptyStr THEN RNone
        ELSE IF ParseHourMinuteError(time_str) # "" THEN RNone
        ELSE MakeDatetime(DateOf(n3.wall), time_str[1].val, time_str[2].val)

\* n1, n2, n3: what dt_util.now() returns in today_alarm, in
\* is_alarm_disabled_tonight and in the body, in this order
next_alarm_datetime(d, side, n1, n2, n3) ==
    LET alarm == today_alarm(d, side, n1)
        suppressed == is_alarm_disabled_tonight(d, side, n2)
        time_str == Get(alarm, "time", EmptyStr)
    IN  IF ~Get(alarm, "enabled", FALSE) THEN RNone
        ELSE IF suppressed.kind = "raise" THEN suppressed
        ELSE IF suppressed.b THEN RNone
        ELSE IF time_str = EmptyStr THEN RNone
        ELSE IF ParseHourMinuteError(time_str) \in {"ValueError", "IndexError"}
             THEN RNone
        ELSE MakeDatetime(target_date(n3), time_str[1].val, time_str[2].val)

\* FreeSleepNextAlarmSensor.native_value
next_alarm_native_value(d, side, n1, n2, n3) ==
    next_alarm_datetime(d, side, n1, n2, n3)

\* FreeSleepData.gain: device_status.settings["gain" + side.title()]
gain(d, side) ==
    LET key == IF side = "left" THEN "gainLeft" ELSE "gainRight"
    IN  Get(Get(d.device_status, "settings", EmptyDict), key, 100)

\* a datetime.time
RTime(hour, minute) ==
    [kind |-> "time", b |-> FALSE, s |-> "", wall |-> hour * 60 + minute, off |-> 0]

\* _parse_time of time.py: dt_time(int(parts[0]), int(parts[1])), None on
\* ValueError or IndexError
parse_time(time_str) ==
    IF ParseHourMinuteError(time_str) \in {"ValueError", "IndexError"} THEN RNone
    ELSE IF time_str[1].val \in 0..23 /\ time_str[2].val \in 0..59
    THEN RTime(time_str[1].val, time_str[2].val)
    ELSE RNone

\* FreeSleepAlarmTimeTonight.native_value: n1 is the clock read for the
\* expiry test, n2 the one today_alarm reads
alarm_time_tonight_native_value(d, side, n1, n2) ==
    LET override == alarm_override(d, side)
        time_override == Get(override, "timeOverride", EmptyStr)
        expires_at == Get(override, "expiresAt", IsoEmpty)
        time_str == Get(today_alarm(d, side, n2), "time", EmptyStr)
    IN  IF /\ time_override # EmptyStr
           /\ expires_at.kind # "empty"
           /\ ExpiresAfter(expires_at, n1, {"ValueError", "TypeError"}).b
        THEN parse_time(time_override)
        ELSE IF time_str # EmptyStr THEN parse_time(time_str) ELSE RNone

---------------------------------------------------------------------------
(* Server status *)

server_service_status(d, service_name) ==
    Get(d.server_status, service_name, EmptyDict)

critical == << "franken", "database", "biometricsStream" >>

\* for svc in critical[i..]: ... return False; return True
RECURSIVE healthy_from(_, _)
healthy_from(d, i) ==
    IF i > Len(critical) THEN TRUE
    ELSE LET status ==
                 Get(server_service_status(d, critical[i]), "status", "unknown")
         IN  IF status \in {"failed", "not_started"} THEN FALSE
             ELSE healthy_from(d, i + 1)

\* a variant that returns after the first critical service
is_server_healthy_first_only(d) ==
    Get(server_service_status(d, critical[1]), "status", "unknown")
        \notin {"failed", "not_started"}

is_server_healthy(d) == healthy_from(d, 1)

\* FreeSleepServerHealthSensor.is_on
server_health_is_on(d) == ~is_server_healthy(d)

---------------------------------------------------------------------------
(* The snapshot and the idle coordinator *)

\* FreeSleepData.__init__
FreeSleepData(device_status, settings, presence, schedules, services, vitals_summary, last_sleep, server_status) ==
    [ device_status |-> device_status, settings |-> settings,
      presence |-> presence, schedules |-> schedules, services |-> services,
      vitals_summary |-> vitals_summary, last_sleep |-> last_sleep,
      server_status |-> server_status ]

\* Python's None, where a dict is expected
PyNone == [py_none |-> TRUE]

\* the coordinator between two refresh cycles
\*   pc            "idle", "gather" (the six fetches of asyncio.gather are
\*                 outstanding) or "optional" (the per-side fetches)
\*   pending       the fetches of the gather that have not completed
\*   got           the results of those that have
\*   step          the optional fetch awaited, 1..4
\*   vitals_summary, last_sleep   the dicts the loop fills
\*   resp          the responses to the optional fetches so far
\*   failed, exc   the fetch that made the gather raise, and the exception
\*   outcome       how the last cycle ended: "ok", "UpdateFailed", "error"
\*   requested     async_request_refresh() has been called
IdleCycle ==
    [ pc |-> "idle", pending |-> {}, got |-> EmptyDict, step |-> 0,
      vitals_summary |-> EmptyDict, last_sleep |-> EmptyDict, resp |-> << >>,
      failed |-> "", exc |-> "", outcome |-> "", requested |-> FALSE ]

---------------------------------------------------------------------------
(* Evaluations of the derivations at the current clock *)

Returned(op, side, n1, n2, n3, val) ==
    [op |-> op, side |-> side, n1 |-> n1, n2 |-> n2, n3 |-> n3, val |-> val]

EvalTodayKey ==
    /\ ret' = Returned("_today_key", "", clock, clock, clock,
                        RStr(today_key(Now(clock))))
    /\ UNCHANGED <<clock, tz, remote, data, cycle, calls>>

EvalAlarmDisabled(side) ==
    /\ ret' = Returned("is_alarm_disabled_tonight", side, clock, clock, clock,
                        is_alarm_disabled_tonight(data, side, Now(clock)))
    /\ UNCHANGED <<clock, tz, remote, data, cycle, calls>>

EvalTempScheduleDisabled(side) ==
    /\ ret' = Returned("is_temp_schedule_disabled_tonight", side,
                        clock, clock, clock,
                        is_temp_schedule_disabled_tonight(data, side, Now(clock)))
    /\ UNCHANGED <<clock, tz, remote, data, cycle, calls>>

\* the clock may advance between the reads of one evaluation
EvalNextAlarm(side) ==
    \E n1, n2, n3 \in clock..(clock + MaxSkew) :
        /\ n1 <= n2 /\ n2 <= n3
        /\ ret' = Returned("next_alarm_datetime", side, n1, n2, n3,
                            next_alarm_native_value(data, side,
                                                    Now(n1), Now(n2), Now(n3)))
        /\ clock' = n3
        /\ UNCHANGED <<tz, remote, data, cycle, calls>>

\* the clock may advance between the two reads
EvalAlarmTimeTonight(side) ==
    \E n1, n2 \in clock..(clock + MaxSkew) :
        /\ n1 <= n2
        /\ ret' = Returned("alarm_time_tonight", side, n1, n2, n2,
                            alarm_time_tonight_native_value(data, side,
                                                            Now(n1), Now(n2)))
        /\ clock' = n2
        /\ UNCHANGED <<tz, remote, data, cycle, calls>>

EvalGain(side) ==
    /\ ret' = Returned("gain", side, clock, clock, clock,
                        RInt(gain(data, side)))
    /\ UNCHANGED <<clock, tz, remote, data, cycle, calls>>

EvalServerHealthy ==
    /\ ret' = Returned("is_server_healthy", "", clock, clock, clock,
                        RBool(is_server_healthy(data)))
    /\ UNCHANGED <<clock, tz, remote, data, cycle, calls>>

EvalServerHealthSensor ==
    /\ ret' = Returned("server_health.is_on", "", clock, clock, clock,
                        RBool(server_health_is_on(data)))
    /\ UNCHANGED <<clock, tz, remote, data, cycle, calls>>

---------------------------------------------------------------------------
(* Inputs of the derivations *)

TzOffsets == {-300, 60}

NoRemote == EmptyDict

OtherSide(side) == IF side = "left" THEN "right" ELSE "left"

\* a complete alarm record
DefaultAlarm ==
    [ enabled |-> TRUE, time |-> HHMM(7, 45), vibrationIntensity |-> 80,
      vibrationPattern |-> "rise", alarmTemperature |-> 82, duration |-> 10 ]

\* alarm "time" strings: "", "06:30", "13:15", "24:00", "06:60", "-1:30",
\* "ab:30", "06:cd", "0630", "06:30:15"
TimeInputs ==
    { EmptyStr, HHMM(6, 30), HHMM(13, 15), HHMM(24, 0), HHMM(6, 60),
      HHMM(-1, 30), << AlphaPart, NumPart(30) >>, << NumPart(6), AlphaPart >>,
      << NumPart(630) >>, << NumPart(6), NumPart(30), NumPart(15) >> }

\* alarm records of the server: any subset of the keys enabled, time
AlarmInputs ==
    { [vibrationIntensity |-> 50] }
    \cup { [enabled |-> e, vibrationIntensity |-> 50] : e \in BOOLEAN }
    \cup { [time |-> t, vibrationIntensity |-> 50] : t \in TimeInputs }
    \cup { [enabled |-> e, time |-> t, vibrationIntensity |-> 50] :
               e \in BOOLEAN, t \in TimeInputs }

\* the schedule with alarm a on Monday and Tuesday of side s
ScheduleInput(s, a) ==
    [ side \in Sides |->
        [ day \in Days |->
            [ alarm |-> IF side = s /\ day \in {"monday", "tuesday"}
                        THEN a ELSE DefaultAlarm ] ] ]

\* expiresAt strings around the instant c
ExpiresInputs(c) ==
    { IsoEmpty, IsoGarbage, IsoInvalid, IsoNaive(c + 1440) }
    \cup { IsoAware(c + k + o, o) : k \in {-1, 0, 1, 1440}, o \in {0, 60} }

\* override records: any subset of the keys disabled, expiresAt
OverrideInputs(c) ==
    { EmptyDict }
    \cup { [disabled |-> x] : x \in BOOLEAN }
    \cup { [expiresAt |-> e] : e \in ExpiresInputs(c) }
    \cup { [disabled |-> x, expiresAt |-> e] :
               x \in BOOLEAN, e \in ExpiresInputs(c) }

\* the settings with alarm override o and temperature override t on side s
SettingsInput(s, o, t) ==
    [ side \in {s} |->
        [ scheduleOverrides |-> [ alarm |-> o, temperatureSchedules |-> t ] ] ]

\* local wall-clock instants: Monday and Sunday, around the alarm time and noon
LocalSamples ==
    { d * 1440 + m : d \in {0, 6}, m \in {389, 390, 719, 720, 780, 1439} }

DerivationInput(schedules, settings, server_status) ==
    FreeSleepData(EmptyDict, settings, EmptyDict, schedules, EmptyDict,
                  EmptyDict, EmptyDict, server_status)

---------------------------------------------------------------------------
(* SpecDay: _today_key at every minute of MaxDays days *)

InitDay ==
    /\ tz \in TzOffsets
    /\ clock \in 0..(MaxDays * 1440 - 1)
    /\ remote = NoRemote
    /\ data = DerivationInput(EmptyDict, EmptyDict, EmptyDict)
    /\ cycle = IdleCycle
    /\ calls = << >>
    /\ ret = NoRet

NextDay == EvalTodayKey

SpecDay == InitDay /\ [][NextDay]_vars

---------------------------------------------------------------------------
(* SpecOverride: the "disabled tonight" predicates over override records *)

InitOverride ==
    /\ tz \in TzOffsets
    /\ \E w \in LocalSamples : clock = w - tz
    /\ remote = NoRemote
    /\ \E s \in Sides, o \in OverrideInputs(clock) :
          data = DerivationInput(ScheduleInput(s, DefaultAlarm),
                                 SettingsInput(s, o, EmptyDict), EmptyDict)
    /\ cycle = IdleCycle
    /\ calls = << >>
    /\ ret = NoRet

NextOverride ==
    \E side \in Sides : EvalAlarmDisabled(side)

SpecOverride == InitOverride /\ [][NextOverride]_vars

---------------------------------------------------------------------------
(* SpecAlarm: next_alarm_datetime over alarm records and overrides *)

\* alarm overrides around the instant c: none, active, expiring one minute
\* after c, not disabled, unparsable
AlarmOverrideSamples(c) ==
    { EmptyDict,
      [disabled |-> TRUE, timeOverride |-> EmptyStr,
       expiresAt |-> IsoAware(c + 1440, 0)],
      [disabled |-> TRUE, timeOverride |-> EmptyStr,
       expiresAt |-> IsoAware(c + 1 + 60, 60)],
      [disabled |-> FALSE, timeOverride |-> HHMM(5, 0),
       expiresAt |-> IsoAware(c + 1440, 0)],
      [disabled |-> TRUE, expiresAt |-> IsoGarbage] }

InitAlarm ==
    /\ tz \in TzOffsets
    /\ \E w \in LocalSamples : clock = w - tz
    /\ remote = NoRemote
    /\ \E s \in Sides, a \in AlarmInputs, o \in AlarmOverrideSamples(clock) :
          data = DerivationInput(ScheduleInput(s, a),
                                 SettingsInput(s, o, EmptyDict), EmptyDict)
    /\ cycle = IdleCycle
    /\ calls = << >>
    /\ ret = NoRet

\* one evaluation of each input
NextAlarm ==
    /\ ret = NoRet
    /\ \E side \in Sides : EvalNextAlarm(side)

SpecAlarm == InitAlarm /\ [][NextAlarm]_vars

---------------------------------------------------------------------------
(* SpecHealth: is_server_healthy over server-status maps *)

\* the critical services and one that is not
ServiceNames == {"franken", "database", "biometricsStream", "sentry"}

\* an entry of the server-status map, with or without a status
ServiceEntries ==
    { [message |-> "m"] }
    \cup { [status |-> x, message |-> "m"] :
               x \in {"healthy", "started", "failed", "not_started"} }

\* server-status maps: any subset of the services, any entries
ServerStatusInputs ==
    UNION { [names -> ServiceEntries] : names \in SUBSET ServiceNames }

InitHealth ==
    /\ tz \in TzOffsets
    /\ clock = 720 - tz
    /\ remote = NoRemote
    /\ \E st \in ServerStatusInputs :
          data = DerivationInput(EmptyDict, EmptyDict, st)
    /\ cycle = IdleCycle
    /\ calls = << >>
    /\ ret = NoRet

NextHealth == EvalServerHealthy \/ EvalServerHealthSensor

SpecHealth == InitHealth /\ [][NextHealth]_vars

---------------------------------------------------------------------------
(* Claims about the derivations *)

\* the weekday name of a local wall-clock instant
DayName(wall) ==
    CASE WeekdayOf(wall) = 0 -> "monday"
      [] WeekdayOf(wall) = 1 -> "tuesday"
      [] WeekdayOf(wall) = 2 -> "wednesday"
      [] WeekdayOf(wall) = 3 -> "thursday"
      [] WeekdayOf(wall) = 4 -> "friday"
      [] WeekdayOf(wall) = 5 -> "saturday"
      [] OTHER -> "sunday"

\* the active schedule day at the absolute instant c, as the claims state it
ActiveDayAt(c) ==
    IF HourOf(c + tz) < 12 THEN DayName(c + tz) ELSE DayName(c + tz + 1440)

\* the noon-crossover calendar date at the absolute instant c
CrossoverDateAt(c) ==
    IF HourOf(c + tz) < 12 THEN DateOf(c + tz) ELSE DateOf(c + tz) + 1

\* C4: the active schedule day key is now's own weekday when now's local
\* hour is below 12 and the weekday of now + 1 day from 12:00 on, Sunday
\* wrapping to Monday, for every weekday and every minute of the day.
C4_ActiveScheduleDay ==
    ret.op = "_today_key" =>
        /\ ret.val = RStr(ActiveDayAt(ret.n1))
        /\ (MinuteOf(ret.n1 + tz) = 59 /\ HourOf(ret.n1 + tz) = 11)
              => ret.val.s = DayName(ret.n1 + tz)
        /\ (DayName(ret.n1 + tz) = "sunday" /\ HourOf(ret.n1 + tz) >= 12)
              => ret.val.s = "monday"

\* Sunday 12:00 local has been evaluated and gave Monday
C4_Witness ==
    /\ ret.op = "_today_key"
    /\ DayName(ret.n1 + tz) = "sunday"
    /\ HourOf(ret.n1 + tz) = 12 /\ MinuteOf(ret.n1 + tz) = 0
    /\ ret.val.s = "monday"

\* the alarm override record of a side as the snapshot holds it
RawAlarmOverride(side) ==
    IF side \in DOMAIN data.settings
    THEN data.settings[side].scheduleOverrides.alarm
    ELSE EmptyDict

\* the override-activity rule of the claims at the absolute instant c:
\* disabled is true, expiresAt is non-empty and is a timestamp with UTC
\* offset that lies strictly after c
ActiveOverrideAt(o, c) ==
    /\ "disabled" \in DOMAIN o /\ o.disabled
    /\ "expiresAt" \in DOMAIN o
    /\ o.expiresAt.kind = "aware"
    /\ o.expiresAt.wall - o.expiresAt.off > c

\* C5: is_alarm_disabled_tonight(side) is true iff disabled is true and
\* expiresAt is non-empty and parses to a timestamp strictly later than
\* now; otherwise it is false, and it never raises.
C5_AlarmDisabledTonight ==
    ret.op = "is_alarm_disabled_tonight" =>
        ret.val = RBool(ActiveOverrideAt(RawAlarmOverride(ret.side), ret.n1))

\* an override with another UTC offset than the local one that expires one
\* minute after now has been evaluated as active
C5_Witness ==
    /\ ret.op = "is_alarm_disabled_tonight"
    /\ ret.val = RBool(TRUE)
    /\ RawAlarmOverride(ret.side).expiresAt.off # tz
    /\ RawAlarmOverride(ret.side).expiresAt.wall
          - RawAlarmOverride(ret.side).expiresAt.off = ret.n1 + 1

\* the alarm of the active schedule day of a side at the absolute instant c,
\* as the snapshot holds it
RawActiveAlarm(side, c) == data.schedules[side][ActiveDayAt(c)].alarm

AlarmEnabled(alarm) == "enabled" \in DOMAIN alarm /\ alarm.enabled

AlarmTime(alarm) == IF "time" \in DOMAIN alarm THEN alarm.time ELSE EmptyStr

\* a well-formed HH:MM: two integers, hour 0..23 and minute 0..59
WellFormedTime(t) ==
    /\ Len(t) = 2
    /\ t[1].kind = "num" /\ t[1].val \in 0..23
    /\ t[2].kind = "num" /\ t[2].val \in 0..59

\* malformed as C7 lists it: a non-numeric part, no colon, or an hour or a
\* minute out of range
MalformedTime(t) ==
    /\ t # EmptyStr
    /\ \/ Len(t) < 2
       \/ t[1].kind # "num"
       \/ t[2].kind # "num"
       \/ Len(t) = 2 /\ (t[1].val \notin 0..23 \/ t[2].val \notin 0..59)

\* C6: next_alarm_datetime(side) is absent when the alarm of the active
\* schedule day is not enabled, when the side's alarm override is active or
\* when the alarm's time is empty; otherwise, with a well-formed HH:MM, it
\* is the noon-crossover date at HH:MM:00 in the configured time zone.  The
\* alarm is the one of the instant the schedule was read (n1), the override
\* is judged at the instant it was read (n2), the date is the one of the
\* instant the date was computed (n3); they are one instant unless the
\* clock advanced during the call.
C6_NextAlarm ==
    ret.op = "next_alarm_datetime" =>
        LET alarm == RawActiveAlarm(ret.side, ret.n1)
            active == ActiveOverrideAt(RawAlarmOverride(ret.side), ret.n2)
            t == AlarmTime(alarm)
        IN  /\ (~AlarmEnabled(alarm) \/ active \/ t = EmptyStr)
                  => ret.val = RNone
            /\ (AlarmEnabled(alarm) /\ ~active /\ WellFormedTime(t))
                  => ret.val = RDt(CrossoverDateAt(ret.n3) * 1440
                                     + t[1].val * 60 + t[2].val, tz)

\* Monday 13:00 with alarm 06:30 enabled gave Tuesday 06:30
C6_Witness ==
    /\ ret.op = "next_alarm_datetime"
    /\ ret.n1 = ret.n3 /\ ret.n1 + tz = 780
    /\ AlarmEnabled(RawActiveAlarm(ret.side, ret.n1))
    /\ AlarmTime(RawActiveAlarm(ret.side, ret.n1)) = HHMM(6, 30)
    /\ ret.val = RDt(1440 + 390, tz)

\* C7: for every malformed time string of an enabled alarm that is not
\* suppressed, next_alarm_datetime returns absent and raises no error.
C7_MalformedTimeAbsent ==
    ( /\ ret.op = "next_alarm_datetime"
      /\ AlarmEnabled(RawActiveAlarm(ret.side, ret.n1))
      /\ ~ActiveOverrideAt(RawAlarmOverride(ret.side), ret.n2)
      /\ MalformedTime(AlarmTime(RawActiveAlarm(ret.side, ret.n1))) )
    => ret.val = RNone

\* C8: is_server_healthy() is false iff one of franken, database and
\* biometricsStream has status "failed" or "not_started"; a missing entry
\* or status does not make it false and other services do not count.  The
\* Server Health Problem sensor is on exactly when it is false.
CriticalFailing ==
    \E svc \in {"franken", "database", "biometricsStream"} :
        /\ svc \in DOMAIN data.server_status
        /\ "status" \in DOMAIN data.server_status[svc]
        /\ data.server_status[svc].status \in {"failed", "not_started"}

C8_ServerHealth ==
    /\ ret.op = "is_server_healthy" => ret.val = RBool(~CriticalFailing)
    /\ ret.op = "server_health.is_on" => ret.val = RBool(CriticalFailing)

\* the sensor is on for a map without franken whose biometricsStream has
\* not started, and whose sentry has failed too
C8_Witness ==
    /\ ret.op = "server_health.is_on"
    /\ ret.val = RBool(TRUE)
    /\ "franken" \notin DOMAIN data.server_status
    /\ "database" \in DOMAIN data.server_status
    /\ "status" \notin DOMAIN data.server_status["database"]
    /\ "biometricsStream" \in DOMAIN data.server_status
    /\ "status" \in DOMAIN data.server_status["biometricsStream"]
    /\ data.server_status["biometricsStream"].status = "not_started"

---------------------------------------------------------------------------
(* FreeSleepApi._request and FreeSleepCoordinator._async_update_data *)

\* what _request raises: FreeSleepConnectionError for an aiohttp.ClientError,
\* FreeSleepApiError for a status >= 400; anything else (a timeout, a body
\* that is no JSON) propagates as it is
RequestErrors == {"FreeSleepConnectionError", "FreeSleepApiError", "TimeoutError"}

\* the exceptions "except FreeSleepApiError" handles: the class and its subclass
ApiErrors == {"FreeSleepApiError", "FreeSleepConnectionError"}

\* the awaitables of asyncio.gather, named by the snapshot field they fill
Gathered ==
    << "device_status", "settings", "presence", "schedules", "services",
       "server_status" >>

\* the optional fetches in the order the loop over SIDES awaits them
OptionalSteps ==
    << [side |-> SIDES[1], what |-> "vitals"], [side |-> SIDES[1], what |-> "sleep"],
       [side |-> SIDES[2], what |-> "vitals"], [side |-> SIDES[2], what |-> "sleep"] >>

\* a refresh starts: asyncio.gather issues the fetches
StartCycle ==
    /\ cycle.pc = "idle"
    /\ cycle' = [ IdleCycle EXCEPT !.pc = "gather",
                     !.pending = {Gathered[i] : i \in 1..Len(Gathered)} ]
    /\ UNCHANGED <<clock, tz, remote, data, calls, ret>>

\* a variant that issues the first optional fetch as soon as one fetch of the
\* gather has returned
RequiredFetchOk_optional_early(r) ==
    /\ cycle.pc = "gather"
    /\ r \in cycle.pending
    /\ cycle' = [ cycle EXCEPT
                     !.pending = @ \ {r},
                     !.got = DictUpdate(@, [k \in {r} |-> remote[r]]),
                     !.pc = "optional",
                     !.step = 1 ]
    /\ UNCHANGED <<clock, tz, remote, data, calls, ret>>

\* a variant whose settings fetch is a POST of an empty alarm override for the
\* left side instead of a GET
RequiredFetchOk_posts(r) ==
    /\ cycle.pc = "gather"
    /\ r \in cycle.pending
    /\ cycle' = [ cycle EXCEPT
                     !.pending = @ \ {r},
                     !.got = DictUpdate(@, [k \in {r} |-> remote[r]]),
                     !.pc = IF cycle.pending = {r} THEN "optional" ELSE @,
                     !.step = IF cycle.pending = {r} THEN 1 ELSE @ ]
    /\ remote' = IF r = "settings"
                 THEN [remote EXCEPT !.settings =
                          DictUpdate(@, [left |-> [scheduleOverrides |->
                                           [alarm |-> [disabled |-> FALSE]]]])]
                 ELSE remote
    /\ UNCHANGED <<clock, tz, data, calls, ret>>

\* a fetch of the gather returns the server's resource; after the last one
\* the gather returns and the loop awaits the first optional fetch
RequiredFetchOk(r) ==
    /\ cycle.pc = "gather"
    /\ r \in cycle.pending
    /\ cycle' = [ cycle EXCEPT
                     !.pending = @ \ {r},
                     !.got = DictUpdate(@, [k \in {r} |-> remote[r]]),
                     !.pc = IF cycle.pending = {r} THEN "optional" ELSE @,
                     !.step = IF cycle.pending = {r} THEN 1 ELSE @ ]
    /\ UNCHANGED <<clock, tz, remote, data, calls, ret>>

\* a variant that takes an empty result for a failed fetch and goes on
RequiredFetchFail_absorbed(r, exc) ==
    /\ cycle.pc = "gather"
    /\ r \in cycle.pending
    /\ exc \in RequestErrors
    /\ cycle' = [ cycle EXCEPT
                     !.pending = @ \ {r},
                     !.got = DictUpdate(@, [k \in {r} |-> EmptyDict]),
                     !.failed = r, !.exc = exc,
                     !.pc = IF cycle.pending = {r} THEN "optional" ELSE @,
                     !.step = IF cycle.pending = {r} THEN 1 ELSE @ ]
    /\ UNCHANGED <<clock, tz, remote, data, calls, ret>>

\* a variant in which the server-status fetch is not part of the gather's
\* all-or-nothing: its failure leaves an empty server status
RequiredFetchFail_health_optional(r, exc) ==
    /\ cycle.pc = "gather"
    /\ r \in cycle.pending
    /\ exc \in RequestErrors
    /\ cycle' = IF r = "server_status"
                THEN [ cycle EXCEPT
                         !.pending = @ \ {r},
                         !.got = DictUpdate(@, [k \in {r} |-> EmptyDict]),
                         !.failed = r, !.exc = exc,
                         !.pc = IF cycle.pending = {r} THEN "optional" ELSE @,
                         !.step = IF cycle.pending = {r} THEN 1 ELSE @ ]
                ELSE [ IdleCycle EXCEPT
                         !.got = cycle.got, !.failed = r, !.exc = exc,
                     !.requested = cycle.requested,
                         !.outcome = IF exc \in ApiErrors
                                     THEN "UpdateFailed" ELSE "error" ]
    /\ UNCHANGED <<clock, tz, remote, data, calls, ret>>

\* a fetch of the gather raises: the gather raises, "except FreeSleepApiError"
\* turns it into UpdateFailed, and the coordinator keeps its data
RequiredFetchFail(r, exc) ==
    /\ cycle.pc = "gather"
    /\ r \in cycle.pending
    /\ exc \in RequestErrors
    /\ cycle' = [ IdleCycle EXCEPT
                     !.got = cycle.got, !.failed = r, !.exc = exc,
                     !.requested = cycle.requested,
                     !.outcome = IF exc \in ApiErrors
                                 THEN "UpdateFailed" ELSE "error" ]
    /\ UNCHANGED <<clock, tz, remote, data, calls, ret>>

\* a variant that keeps the first record: records[0]
LastRecord_first(records) ==
    IF Len(records) > 0 THEN records[1] ELSE PyNone

\* records[-1] if records else None
LastRecord(records) ==
    IF Len(records) > 0 THEN records[Len(records)] ELSE PyNone

\* a variant that keeps the published snapshot's vitals of a side whose fetch
\* failed
VitalsAfter_keep_previous(c, st, exc, body) ==
    IF st.what = "vitals"
    THEN DictUpdate(c.vitals_summary,
                    [k \in {st.side} |->
                        IF exc = "" THEN body ELSE data.vitals_summary[st.side]])
    ELSE c.vitals_summary

\* the dicts after the optional fetch `st` answered `body`, or raised `exc`
VitalsAfter(c, st, exc, body) ==
    IF st.what = "vitals"
    THEN DictUpdate(c.vitals_summary,
                    [k \in {st.side} |-> IF exc = "" THEN body ELSE EmptyDict])
    ELSE c.vitals_summary

\* a variant with one try block around both fetches of a side: after a
\* failed vitals fetch the side's sleep records are not fetched
LastSleepAfter_shared_try(c, st, exc, body) ==
    IF st.what = "sleep"
    THEN DictUpdate(c.last_sleep,
                    [k \in {st.side} |->
                        IF exc = "" /\ c.vitals_summary[st.side] # EmptyDict
                        THEN LastRecord(body) ELSE PyNone])
    ELSE c.last_sleep

LastSleepAfter(c, st, exc, body) ==
    IF st.what = "sleep"
    THEN DictUpdate(c.last_sleep,
                    [k \in {st.side} |->
                        IF exc = "" THEN LastRecord(body) ELSE PyNone])
    ELSE c.last_sleep

\* the optional fetch awaited returns (exc = "") or raises; "except Exception"
\* handles whatever it raises.  After the fourth the snapshot is returned
\* and the coordinator publishes it.
OptionalFetchDone(exc) ==
    /\ cycle.pc = "optional"
    /\ exc \in RequestErrors \cup {""}
    /\ LET st == OptionalSteps[cycle.step]
           body == remote[st.what][st.side]
           vitals_summary == VitalsAfter(cycle, st, exc, body)
           last_sleep == LastSleepAfter(cycle, st, exc, body)
           resp == Append(cycle.resp, [exc |-> exc, body |-> body])
       IN  IF cycle.step < Len(OptionalSteps)
           THEN /\ cycle' = [ cycle EXCEPT
                                !.step = @ + 1,
                                !.vitals_summary = vitals_summary,
                                !.last_sleep = last_sleep,
                                !.resp = resp ]
                /\ data' = data
           ELSE /\ cycle' = [ IdleCycle EXCEPT
                                !.got = cycle.got, !.resp = resp,
                                !.requested = cycle.requested,
                                !.outcome = "ok" ]
                /\ data' = FreeSleepData(
                               cycle.got["device_status"], cycle.got["settings"],
                               cycle.got["presence"], cycle.got["schedules"],
                               cycle.got["services"], vitals_summary, last_sleep,
                               cycle.got["server_status"])
    /\ UNCHANGED <<clock, tz, remote, calls, ret>>

---------------------------------------------------------------------------
(* The server *)

\* the server's resources, with `records` the sleep records of the right side
RemoteInput(alarm, records) ==
    [ device_status |-> [isPriming |-> FALSE, settings |-> [gainLeft |-> 80]],
      settings |-> SettingsInput("left", EmptyDict, EmptyDict),
      presence |-> [left |-> [present |-> FALSE], right |-> [present |-> FALSE]],
      schedules |-> ScheduleInput("left", alarm),
      services |-> [biometrics |-> [enabled |-> TRUE]],
      server_status |-> [franken |-> [status |-> "healthy"]],
      vitals |-> [left |-> [avgHeartRate |-> 58], right |-> [avgHeartRate |-> 64]],
      sleep |-> [left |-> << [id |-> 1], [id |-> 2] >>, right |-> records] ]

\* the snapshot of a refresh of the server r in which every fetch succeeded:
\* async_config_entry_first_refresh, before any entity exists
FirstRefresh(r) ==
    FreeSleepData(r.device_status, r.settings, r.presence, r.schedules,
                  r.services, r.vitals,
                  [side \in Sides |-> LastRecord(r.sleep[side])],
                  r.server_status)

\* somebody gets into or out of the left side of the bed
PresenceChange ==
    /\ remote' = [remote EXCEPT !.presence.left.present = ~@]
    /\ UNCHANGED <<clock, tz, data, cycle, calls, ret>>

---------------------------------------------------------------------------
(* SpecRefresh: refresh cycles against a server whose presence changes *)

InitRefresh ==
    /\ tz = 60
    /\ clock = 780 - tz
    /\ \E records \in {<< >>, << [id |-> 3] >>} :
          remote = RemoteInput(DefaultAlarm, records)
    /\ data = FirstRefresh(remote)
    /\ cycle = IdleCycle
    /\ calls = << >>
    /\ ret = NoRet

NextRefresh ==
    \/ StartCycle
    \/ \E r \in DOMAIN remote : RequiredFetchOk(r)
    \/ \E r \in DOMAIN remote, exc \in RequestErrors : RequiredFetchFail(r, exc)
    \/ \E exc \in RequestErrors \cup {""} : OptionalFetchDone(exc)
    \/ PresenceChange

SpecRefresh == InitRefresh /\ [][NextRefresh]_vars

---------------------------------------------------------------------------
(* Claims about the refresh cycle *)

\* the five fetches the specification calls required
RequiredFive == {"device_status", "settings", "presence", "schedules", "services"}

\* the snapshot d holds, for every gathered resource, the result in got
HoldsGathered(d, got) ==
    /\ DOMAIN got = {Gathered[i] : i \in 1..Len(Gathered)}
    /\ \A r \in DOMAIN got : d[r] = got[r]

\* C2: a cycle in which a required fetch fails with a connectivity or a
\* protocol error ends in failure (UpdateFailed) and publishes nothing, so
\* the snapshot published before stays; and a snapshot is only ever
\* published with the results of all the gathered fetches of one cycle.
C2_FailedCycleKeepsSnapshot ==
    [][ /\ ( /\ cycle.pc = "gather"
             /\ cycle'.failed \in RequiredFive
             /\ cycle'.exc \in ApiErrors )
           => ( /\ data' = data
                /\ cycle'.pc = "idle"
                /\ cycle'.outcome = "UpdateFailed" )
        /\ (data' # data)
           => ( /\ cycle.pc = "optional"
                /\ cycle.failed = ""
                /\ cycle'.outcome = "ok"
                /\ HoldsGathered(data', cycle.got) )
      ]_vars

\* a cycle has failed after it had fetched a presence that differs from the
\* published one: the partial results were not published
C2_Witness ==
    /\ cycle.outcome = "UpdateFailed"
    /\ cycle.failed \in RequiredFive
    /\ cycle.exc = "FreeSleepConnectionError"
    /\ "presence" \in DOMAIN cycle.got
    /\ cycle.got["presence"] # data.presence

\* what the optional fetch i of the last cycle leaves in a snapshot
OptionalResult(i) ==
    IF cycle.resp[i].exc # ""
    THEN IF OptionalSteps[i].what = "vitals" THEN EmptyDict ELSE PyNone
    ELSE IF OptionalSteps[i].what = "vitals" THEN cycle.resp[i].body
    ELSE IF cycle.resp[i].body = << >> THEN PyNone
    ELSE cycle.resp[i].body[Len(cycle.resp[i].body)]

\* what the snapshot holds for the optional fetch i
OptionalField(i) ==
    IF OptionalSteps[i].what = "vitals"
    THEN data.vitals_summary[OptionalSteps[i].side]
    ELSE data.last_sleep[OptionalSteps[i].side]

\* C3: when the required fetches all succeed, no failure of a vitals or a
\* sleep fetch fails the cycle: a snapshot is published in which exactly the
\* failed resource of that side is empty (vitals an empty map, last sleep
\* absent) and every other one holds the result of its own fetch.
C3_OptionalFailureAbsorbed ==
    /\ (cycle.pc = "optional" \/ cycle.resp # << >>) => cycle.failed = ""
    /\ (cycle.pc = "idle" /\ cycle.resp # << >>)
          => ( /\ cycle.outcome = "ok"
               /\ Len(cycle.resp) = Len(OptionalSteps)
               /\ HoldsGathered(data, cycle.got)
               /\ \A i \in 1..Len(OptionalSteps) :
                     OptionalField(i) = OptionalResult(i) )

\* a snapshot has been published after the left vitals fetch alone failed
C3_Witness ==
    /\ cycle.outcome = "ok"
    /\ cycle.resp[1].exc = "FreeSleepApiError"
    /\ \A i \in 2..4 : cycle.resp[i].exc = ""
    /\ data.vitals_summary["left"] = EmptyDict
    /\ data.last_sleep["left"] = [id |-> 2]
    /\ data.vitals_summary["right"] = [avgHeartRate |-> 64]
    /\ data.last_sleep["right"] = [id |-> 3]

\* C10 as stated: server health is optional, a failure of the server-status
\* fetch does not fail the refresh cycle.
C10_HealthOptional ==
    cycle.failed = "server_status"
        => cycle.outcome \notin {"UpdateFailed", "error"}

\* C10 as amended: the server-status fetch is one of the gathered fetches; its
\* failure fails the refresh cycle as a failure of device status, settings,
\* presence, schedules or services does, and the snapshot published before
\* stays.  A cycle fails only by one of these six, and a published snapshot
\* holds the server status that was fetched.
C10_HealthRequired ==
    [][ /\ (cycle.pc = "gather" /\ cycle'.failed = "server_status")
           => ( /\ data' = data
                /\ cycle'.pc = "idle"
                /\ cycle'.outcome = IF cycle'.exc \in ApiErrors
                                     THEN "UpdateFailed" ELSE "error" )
        /\ (cycle'.outcome \in {"UpdateFailed", "error"})
           => cycle'.failed \in RequiredFive \cup {"server_status"}
        /\ (data' # data)
           => data'.server_status = cycle.got["server_status"]
      ]_vars

\* the server-status fetch has failed after the five others had succeeded
C10_Witness ==
    /\ cycle.failed = "server_status"
    /\ cycle.outcome = "UpdateFailed"
    /\ DOMAIN cycle.got = RequiredFive

\* the snapshot built from nothing but the responses a cycle has logged:
\* the gathered results and the answers of the four optional fetches
BuiltFrom(got, resp) ==
    LET result(i) ==
            IF resp[i].exc # ""
            THEN IF OptionalSteps[i].what = "vitals" THEN EmptyDict ELSE PyNone
            ELSE IF OptionalSteps[i].what = "vitals" THEN resp[i].body
            ELSE IF resp[i].body = << >> THEN PyNone
            ELSE resp[i].body[Len(resp[i].body)]
        step(side, what) ==
            CHOOSE i \in 1..Len(OptionalSteps) :
                OptionalSteps[i] = [side |-> side, what |-> what]
    IN  [ device_status |-> got["device_status"], settings |-> got["settings"],
          presence |-> got["presence"], schedules |-> got["schedules"],
          services |-> got["services"],
          vitals_summary |-> [side \in Sides |-> result(step(side, "vitals"))],
          last_sleep |-> [side \in Sides |-> result(step(side, "sleep"))],
          server_status |-> got["server_status"] ]

\* C11: every published snapshot is built only from the results of its own
\* refresh cycle; nothing is carried over or merged from the snapshot
\* published before, so a side's vitals / last sleep are empty after a cycle
\* in which that side's optional fetch failed, whatever the previous snapshot
\* held.
C11_SnapshotFromOwnCycle ==
    [][ ((cycle.pc = "optional" /\ cycle'.pc = "idle") \/ data' # data)
          => ( /\ data' = BuiltFrom(cycle'.got, cycle'.resp)
               /\ \A i \in 1..Len(OptionalSteps) :
                     LET side == OptionalSteps[i].side
                     IN  cycle'.resp[i].exc # ""
                           => IF OptionalSteps[i].what = "vitals"
                              THEN data'.vitals_summary[side] = EmptyDict
                              ELSE data'.last_sleep[side] = PyNone )
      ]_vars

\* the left vitals fetch of the last cycle failed and the published snapshot
\* has no vitals of the left side, although the server holds them and the
\* snapshot of the first refresh had them
C11_Witness ==
    /\ cycle.outcome = "ok"
    /\ cycle.resp[1].exc # ""
    /\ data.vitals_summary["left"] = EmptyDict
    /\ FirstRefresh(remote).vitals_summary["left"] = [avgHeartRate |-> 58]
    /\ cycle.resp[4].exc # ""
    /\ data.last_sleep["right"] = PyNone
    /\ FirstRefresh(remote).last_sleep["right"] = [id |-> 3]

---------------------------------------------------------------------------
(* FreeSleepApi.set_alarm and the entities that write one alarm field *)

IsNone(x) == "py_none" \in DOMAIN x

\* a variant that submits the update alone
set_alarm_no_merge(side, day, alarm_data, current_alarm) ==
    << [s \in {side} |-> [d \in {day} |-> [alarm |-> alarm_data]]] >>

\* the set_schedules payloads set_alarm submits, in order
set_alarm(side, day, alarm_data, current_alarm) ==
    LET merged ==
            DictUpdate(IF IsNone(current_alarm) THEN EmptyDict ELSE current_alarm,
                       alarm_data)
    IN  << [s \in {side} |-> [d \in {day} |-> [alarm |-> merged]]] >>

\* a variant that merges in place: merged = current_alarm or {}
set_alarm_current_after_in_place(side, day, alarm_data, current_alarm) ==
    IF current_alarm = EmptyDict THEN current_alarm
    ELSE DictUpdate(current_alarm, alarm_data)

\* the dict the caller passed as current_alarm, after set_alarm returned:
\* dict(current_alarm or {}) is a copy, update() changes the copy alone
set_alarm_current_after(side, day, alarm_data, current_alarm) ==
    current_alarm

\* the snapshot d after a call was handed the dict that
\* d.schedules[side][day]["alarm"] refers to and left it as `after`; where
\* today_alarm fell back to a default {}, no dict of the snapshot was passed
SnapshotAfterCall(d, side, day, after) ==
    IF /\ side \in DOMAIN d.schedules
       /\ day \in DOMAIN d.schedules[side]
       /\ "alarm" \in DOMAIN d.schedules[side][day]
    THEN [d EXCEPT !.schedules[side][day]["alarm"] = after]
    ELSE d

\* POST /api/schedules on the server: the alarm object that the payload
\* addresses is replaced, every other one is kept
ApplySchedules(schedules, payload) ==
    [ s \in DOMAIN schedules |->
        [ d \in DOMAIN schedules[s] |->
            IF s \in DOMAIN payload /\ d \in DOMAIN payload[s]
            THEN DictUpdate(schedules[s][d], payload[s][d])
            ELSE schedules[s][d] ] ]

\* a handler has computed its arguments and awaits set_alarm: the call is
\* logged with the requests it has sent
AlarmCall(handler, side, n1, n2, day, alarm_data, current_alarm) ==
    [ handler |-> handler, side |-> side, n1 |-> n1, n2 |-> n2, day |-> day,
      alarm_data |-> alarm_data, current_alarm |-> current_alarm,
      path |-> "/api/schedules",
      requests |-> set_alarm(side, day, alarm_data, current_alarm),
      status |-> "sent", exc |-> "" ]

\* day = data._today_key(); current = data.today_alarm(side);
\* await api.set_alarm(side, day, alarm_data, current)
\* The clock may advance between the two reads.
IssueAlarmField(handler, side, alarm_data) ==
    /\ \E n1, n2 \in clock..(clock + MaxSkew) :
          /\ n1 <= n2
          /\ calls' = Append(calls,
                 AlarmCall(handler, side, n1, n2, today_key(Now(n1)), alarm_data,
                           today_alarm(data, side, Now(n2))))
          /\ data' = SnapshotAfterCall(data, side, today_key(Now(n2)),
                         set_alarm_current_after(side, today_key(Now(n1)),
                             alarm_data, today_alarm(data, side, Now(n2))))
          /\ clock' = n2
    /\ UNCHANGED <<tz, remote, cycle, ret>>

\* the handler, called while the behaviour has calls left
WriteAlarmField(handler, side, alarm_data) ==
    /\ Len(calls) < MaxCalls
    /\ IssueAlarmField(handler, side, alarm_data)

\* FreeSleepAlarmEnabledSwitch.async_turn_on
AlarmEnabledTurnOn(side) ==
    WriteAlarmField("alarm_enabled.turn_on", side, [enabled |-> TRUE])

\* FreeSleepAlarmEnabledSwitch.async_turn_off
AlarmEnabledTurnOff(side) ==
    WriteAlarmField("alarm_enabled.turn_off", side, [enabled |-> FALSE])

\* FreeSleepAlarmVibrationIntensity.async_set_native_value
AlarmVibrationIntensitySet(side, value) ==
    WriteAlarmField("alarm_vibration_intensity.set", side,
                    [vibrationIntensity |-> value])

\* FreeSleepAlarmTemperature.async_set_native_value
AlarmTemperatureSet(side, value) ==
    WriteAlarmField("alarm_temperature.set", side, [alarmTemperature |-> value])

\* FreeSleepAlarmDuration.async_set_native_value
AlarmDurationSet(side, value) ==
    WriteAlarmField("alarm_duration.set", side, [duration |-> value])

\* FreeSleepAlarmVibrationPatternSelect.async_select_option:
\* day = data._today_key(); await api.set_alarm(side, day, {...})
\* with no current alarm
AlarmVibrationPatternSelect(side, option) ==
    /\ Len(calls) < MaxCalls
    /\ calls' = Append(calls,
           AlarmCall("alarm_vibration_pattern.select", side, clock, clock,
                     today_key(Now(clock)), [vibrationPattern |-> option],
                     PyNone))
    /\ UNCHANGED <<clock, tz, remote, data, cycle, ret>>

\* a handler awaits an api helper: the call is logged with the requests the
\* helper has sent to `path`
ApiCall(handler, side, path, requests) ==
    [ handler |-> handler, side |-> side, path |-> path,
      requests |-> requests, status |-> "sent", exc |-> "" ]

\* FreeSleepApi.set_away_mode: set_settings({side: {"awayMode": enabled}})
set_away_mode(side, enabled) ==
    << [s \in {side} |-> [awayMode |-> enabled]] >>

\* a variant that builds the key from the side as it is: "gain" + side
set_gain_side_as_is(side, value) ==
    LET key == IF side = "left" THEN "gainleft" ELSE "gainright"
    IN  << [settings |-> [k \in {key} |-> value]] >>

\* FreeSleepApi.set_gain: set_device_status({"settings": {gain<Side>: gain}})
set_gain(side, value) ==
    LET key == IF side = "left" THEN "gainLeft" ELSE "gainRight"
    IN  << [settings |-> [k \in {key} |-> value]] >>

\* FreeSleepAwayModeSwitch.async_turn_on / async_turn_off
AwayModeTurn(side, enabled) ==
    /\ Len(calls) < MaxCalls
    /\ calls' = Append(calls,
           ApiCall(IF enabled THEN "away_mode.turn_on" ELSE "away_mode.turn_off",
                   side, "/api/settings", set_away_mode(side, enabled)))
    /\ UNCHANGED <<clock, tz, remote, data, cycle, ret>>

\* FreeSleepGain.async_set_native_value
GainSet(side, value) ==
    /\ Len(calls) < MaxCalls
    /\ calls' = Append(calls,
           ApiCall("gain.set", side, "/api/deviceStatus", set_gain(side, value)))
    /\ UNCHANGED <<clock, tz, remote, data, cycle, ret>>

\* POST /api/settings and POST /api/deviceStatus on the server, a partial
\* merge: the keys the payload gives under a top-level key replace those of
\* the resource, every other key is kept
ApplyPartial(resource, payload) ==
    [ k \in DOMAIN resource \cup DOMAIN payload |->
        IF k \notin DOMAIN payload THEN resource[k]
        ELSE IF k \notin DOMAIN resource THEN payload[k]
        ELSE DictUpdate(resource[k], payload[k]) ]

\* POST /api/settings on the server, a deep merge: under a side, the
\* records of "scheduleOverrides" (one per feature) and of "taps" (one per
\* gesture) are merged key by key; every other key is replaced
MergeRecords(old, new) ==
    [ k \in DOMAIN old \cup DOMAIN new |->
        IF k \notin DOMAIN new THEN old[k]
        ELSE DictUpdate(Get(old, k, EmptyDict), new[k]) ]

MergeSide(old, new) ==
    [ k \in DOMAIN old \cup DOMAIN new |->
        IF k \notin DOMAIN new THEN old[k]
        ELSE IF k \in {"scheduleOverrides", "taps"}
        THEN MergeRecords(Get(old, k, EmptyDict), new[k])
        ELSE new[k] ]

ApplySettings(settings, payload) ==
    [ k \in DOMAIN settings \cup DOMAIN payload |->
        IF k \notin DOMAIN payload THEN settings[k]
        ELSE IF k \in Sides THEN MergeSide(Get(settings, k, EmptyDict), payload[k])
        ELSE payload[k] ]

\* the server after the POST of `payload` to `path`
Posted(r, path, payload) ==
    IF path = "/api/schedules"
    THEN [r EXCEPT !.schedules = ApplySchedules(@, payload)]
    ELSE IF path = "/api/settings"
    THEN [r EXCEPT !.settings = ApplySettings(@, payload)]
    ELSE [r EXCEPT !.device_status = ApplyPartial(@, payload)]

\* the server answers the request of call i: it has applied the payload, and
\* the handler goes on to coordinator.async_request_refresh()
WriteDone(i) ==
    /\ i \in DOMAIN calls
    /\ calls[i].status = "sent"
    /\ calls' = [calls EXCEPT ![i].status = "ok"]
    /\ remote' = Posted(remote, calls[i].path, calls[i].requests[1])
    /\ cycle' = [cycle EXCEPT !.requested = TRUE]
    /\ UNCHANGED <<clock, tz, data, ret>>

\* a variant whose handler asks for the refresh in a finally block
WriteFail_refresh_anyway(i, exc) ==
    /\ i \in DOMAIN calls
    /\ calls[i].status = "sent"
    /\ exc \in RequestErrors
    /\ calls' = [calls EXCEPT ![i].status = "failed", ![i].exc = exc]
    /\ cycle' = [cycle EXCEPT !.requested = TRUE]
    /\ UNCHANGED <<clock, tz, remote, data, ret>>

\* the request of call i fails: _request raises, and so does the handler
WriteFail(i, exc) ==
    /\ i \in DOMAIN calls
    /\ calls[i].status = "sent"
    /\ exc \in RequestErrors
    /\ calls' = [calls EXCEPT ![i].status = "failed", ![i].exc = exc]
    /\ UNCHANGED <<clock, tz, remote, data, cycle, ret>>

---------------------------------------------------------------------------
(* The "tonight" entities: the writes of the schedule overrides *)

\* calls of override and tap handlers in one behaviour
MaxWrites == 2

\* a handler that reads the clock has computed its payload and awaits
\* set_settings: n1 and n2 are its first and its last reading of the clock
OverrideCall(handler, side, n1, n2, requests) ==
    [ handler |-> handler, side |-> side, n1 |-> n1, n2 |-> n2,
      path |-> "/api/settings", requests |-> requests,
      status |-> "sent", exc |-> "" ]

\* set_settings({side: {"scheduleOverrides": {feature: override}}})
set_override(side, feature, override) ==
    << [s \in {side} |->
          [scheduleOverrides |-> [f \in {feature} |-> override]]] >>

\* alarm_dt + timedelta(minutes=2), as isoformat() prints it
PlusTwoMinutes(dt) == IsoAware(dt.wall + 2, dt.off)

\* a variant that takes the date of now, without the noon crossover
alarm_disable_tonight_same_day(side, alarm_time_str, now) ==
    IF alarm_time_str = EmptyStr THEN RNone
    ELSE IF ParseHourMinuteError(alarm_time_str) \in {"ValueError", "IndexError"}
    THEN RNone
    ELSE MakeDatetime(DateOf(now.wall),
                      alarm_time_str[1].val, alarm_time_str[2].val)

\* FreeSleepAlarmDisableTonightSwitch.async_turn_on after the alarm has been
\* read: RNone where it returns early, the exception where it raises, else
\* alarm_dt
alarm_disable_tonight(side, alarm_time_str, now) ==
    IF alarm_time_str = EmptyStr THEN RNone
    ELSE IF ParseHourMinuteError(alarm_time_str) \in {"ValueError", "IndexError"}
    THEN RNone
    ELSE MakeDatetime(target_date(now),
                      alarm_time_str[1].val, alarm_time_str[2].val)

\* FreeSleepAlarmDisableTonightSwitch.async_turn_on: the alarm is read at n1
\* (tonight_alarm -> _today_key), the date is taken from now at n2
AlarmDisableTonightTurnOn(side) ==
    /\ Len(calls) < MaxWrites
    /\ \E n1, n2 \in clock..(clock + MaxSkew) :
          /\ n1 <= n2
          /\ LET alarm == tonight_alarm(data, side, Now(n1))
                 alarm_dt == alarm_disable_tonight(
                                 side, Get(alarm, "time", EmptyStr), Now(n2))
             IN  /\ ret' = Returned("alarm_disable_tonight.turn_on", side,
                                     n1, n2, n2, alarm_dt)
                 /\ calls' =
                      IF alarm_dt.kind = "datetime"
                      THEN Append(calls,
                             OverrideCall("alarm_disable_tonight.turn_on", side,
                                 n1, n2,
                                 set_override(side, "alarm",
                                     [ disabled |-> TRUE,
                                       timeOverride |-> EmptyStr,
                                       expiresAt |-> PlusTwoMinutes(alarm_dt) ])))
                      ELSE calls
          /\ clock' = n2
    /\ UNCHANGED <<tz, remote, data, cycle>>

\* FreeSleepAlarmDisableTonightSwitch.async_turn_off
AlarmDisableTonightTurnOff(side) ==
    /\ Len(calls) < MaxWrites
    /\ calls' = Append(calls,
           OverrideCall("alarm_disable_tonight.turn_off", side, clock, clock,
               set_override(side, "alarm",
                   [ disabled |-> FALSE, timeOverride |-> EmptyStr,
                     expiresAt |-> IsoEmpty ])))
    /\ UNCHANGED <<clock, tz, remote, data, cycle, ret>>

\* a variant that posts the time and its expiry and leaves "disabled" out
AlarmTimeTonightSet_time_only(side, hour, minute) ==
    /\ Len(calls) < MaxWrites
    /\ LET alarm_dt == MakeDatetime(target_date(Now(clock)), hour, minute)
       IN  calls' = Append(calls,
               OverrideCall("alarm_time_tonight.set", side, clock, clock,
                   set_override(side, "alarm",
                       [ timeOverride |-> HHMM(hour, minute),
                         expiresAt |-> PlusTwoMinutes(alarm_dt) ])))
    /\ UNCHANGED <<clock, tz, remote, data, cycle, ret>>

\* FreeSleepAlarmTimeTonight.async_set_value: value is a datetime.time
AlarmTimeTonightSet(side, hour, minute) ==
    /\ Len(calls) < MaxWrites
    /\ LET alarm_dt == MakeDatetime(target_date(Now(clock)), hour, minute)
       IN  calls' = Append(calls,
               OverrideCall("alarm_time_tonight.set", side, clock, clock,
                   set_override(side, "alarm",
                       [ disabled |-> FALSE, timeOverride |-> HHMM(hour, minute),
                         expiresAt |-> PlusTwoMinutes(alarm_dt) ])))
    /\ UNCHANGED <<clock, tz, remote, data, cycle, ret>>

\* a variant that expires at 12:00 of the day after now
temp_schedule_expires_at_next_day(now) ==
    MakeDatetime(DateOf(PlusOneDay(now).wall), 12, 0)

\* expires_at of FreeSleepTempScheduleDisableTonightSwitch.async_turn_on
temp_schedule_expires_at(now) == MakeDatetime(target_date(now), 12, 0)

\* FreeSleepTempScheduleDisableTonightSwitch.async_turn_on
TempScheduleDisableTonightTurnOn(side) ==
    /\ Len(calls) < MaxWrites
    /\ LET expires_at == temp_schedule_expires_at(Now(clock))
       IN  calls' = Append(calls,
               OverrideCall("temp_schedule_disable_tonight.turn_on", side,
                   clock, clock,
                   set_override(side, "temperatureSchedules",
                       [ disabled |-> TRUE,
                         expiresAt |-> IsoAware(expires_at.wall, expires_at.off) ])))
    /\ UNCHANGED <<clock, tz, remote, data, cycle, ret>>

\* FreeSleepTempScheduleDisableTonightSwitch.async_turn_off
TempScheduleDisableTonightTurnOff(side) ==
    /\ Len(calls) < MaxWrites
    /\ calls' = Append(calls,
           OverrideCall("temp_schedule_disable_tonight.turn_off", side,
               clock, clock,
               set_override(side, "temperatureSchedules",
                   [disabled |-> FALSE, expiresAt |-> IsoEmpty])))
    /\ UNCHANGED <<clock, tz, remote, data, cycle, ret>>

---------------------------------------------------------------------------
(* SpecWrite: the alarm-field writes against one snapshot *)

\* values the number entities are set to, and the options of the select
IntensityInputs == {55}
TemperatureInputs == {90}
DurationInputs == {15}
ALARM_VIBRATION_PATTERNS == {"double", "rise"}

\* the alarm of the specification's merge example
ExampleAlarm ==
    [ enabled |-> TRUE, time |-> HHMM(6, 30), vibrationIntensity |-> 80,
      vibrationPattern |-> "rise", duration |-> 10, alarmTemperature |-> 82 ]

\* a server whose left Monday alarm is `alarm`
WriteRemoteInput(alarm) ==
    [ RemoteInput(DefaultAlarm, << >>) EXCEPT
        !.schedules["left"]["monday"] = [alarm |-> alarm] ]

InitWrite ==
    /\ tz = 60
    /\ \E w \in {389, 719, 780, 6 * 1440 + 780} : clock = w - tz
    /\ \E alarm \in {ExampleAlarm, [enabled |-> FALSE, time |-> HHMM(6, 30)]} :
          remote = WriteRemoteInput(alarm)
    /\ data = FirstRefresh(remote)
    /\ cycle = IdleCycle
    /\ calls = << >>
    /\ ret = NoRet

NextWrite ==
    \/ \E side \in Sides : AlarmEnabledTurnOn(side)
    \/ \E side \in Sides : AlarmEnabledTurnOff(side)
    \/ \E side \in Sides, v \in IntensityInputs : AlarmVibrationIntensitySet(side, v)
    \/ \E side \in Sides, v \in TemperatureInputs : AlarmTemperatureSet(side, v)
    \/ \E side \in Sides, v \in DurationInputs : AlarmDurationSet(side, v)
    \/ \E side \in Sides, o \in ALARM_VIBRATION_PATTERNS :
          AlarmVibrationPatternSelect(side, o)
    \/ \E i \in DOMAIN calls : WriteDone(i)
    \/ \E i \in DOMAIN calls, exc \in RequestErrors : WriteFail(i, exc)

SpecWrite == InitWrite /\ [][NextWrite]_vars

---------------------------------------------------------------------------
(* SpecSuppress: both "disabled tonight" predicates of both sides over one
   snapshot while the clock advances from a Monday 06:29 local *)

\* the settings with the given alarm and temperature overrides on each side
SettingsBoth(oL, tL, oR, tR) ==
    [ left |-> [scheduleOverrides |-> [alarm |-> oL, temperatureSchedules |-> tL]],
      right |-> [scheduleOverrides |-> [alarm |-> oR, temperatureSchedules |-> tR]] ]

\* overrides of the right side: none, or one that expires a day after c
RightOverrideInputs(c) ==
    { EmptyDict, [disabled |-> TRUE, expiresAt |-> IsoAware(c + 1440, 0)] }

\* the alarm and the temperature override of the left side: one of them any
\* override record, the other one absent, active for a day or just expired
LeftOverridePairs(c) ==
    LET few == RightOverrideInputs(c)
                 \cup { [disabled |-> TRUE, expiresAt |-> IsoAware(c - 1, 0)] }
    IN  (OverrideInputs(c) \X few) \cup (few \X OverrideInputs(c))

\* a minute passes
Tick ==
    /\ clock < 389 - tz + MaxTicks
    /\ clock' = clock + 1
    /\ UNCHANGED <<tz, remote, data, cycle, calls, ret>>

InitSuppress ==
    /\ tz \in TzOffsets
    /\ clock = 389 - tz
    /\ remote = NoRemote
    /\ \E left \in LeftOverridePairs(clock),
          oR \in RightOverrideInputs(clock), tR \in RightOverrideInputs(clock) :
          data = DerivationInput(ScheduleInput("left", DefaultAlarm),
                                 SettingsBoth(left[1], left[2], oR, tR), EmptyDict)
    /\ cycle = IdleCycle
    /\ calls = << >>
    /\ ret = NoRet

NextSuppress ==
    \/ Tick
    \/ \E side \in Sides : EvalAlarmDisabled(side)
    \/ \E side \in Sides : EvalTempScheduleDisabled(side)

SpecSuppress == InitSuppress /\ [][NextSuppress]_vars

---------------------------------------------------------------------------
(* SpecAction: the entities read the snapshot and write to the server while
   no refresh is in flight, from a Monday 11:59 local *)

GainInputs == {60}

\* the last instant up to which the derivations are evaluated
Horizon == 719 - 60 + MaxSkew

InitAction ==
    /\ tz = 60
    /\ clock = 719 - tz
    /\ remote = WriteRemoteInput(ExampleAlarm)
    /\ data = FirstRefresh(remote)
    /\ cycle = IdleCycle
    /\ calls = << >>
    /\ ret = NoRet

\* the entities of the left side and the gain of the right
NextAction ==
    \/ EvalTodayKey
    \/ EvalAlarmDisabled("left")
    \/ EvalTempScheduleDisabled("left")
    \/ clock < Horizon /\ EvalNextAlarm("left")
    \/ \E side \in Sides : EvalGain(side)
    \/ EvalServerHealthy
    \/ AlarmEnabledTurnOff("left")
    \/ \E v \in DurationInputs : AlarmDurationSet("left", v)
    \/ AlarmVibrationPatternSelect("left", "double")
    \/ AwayModeTurn("left", TRUE)
    \/ \E v \in GainInputs : GainSet("right", v)
    \/ \E i \in DOMAIN calls : WriteDone(i)
    \/ \E i \in DOMAIN calls : WriteFail(i, "FreeSleepConnectionError")

SpecAction == InitAction /\ [][NextAction]_vars

---------------------------------------------------------------------------
(* Claims about the alarm writes *)

\* the alarm record the only request of call c submits
SubmittedAlarm(c) == c.requests[1][c.side][c.day]["alarm"]

\* C1: every action that changes a single alarm field submits a full alarm
\* record equal to the snapshot's current record for the (side, day) it
\* addresses with only the changed field overlaid: every field of the current
\* record is in the payload, and unchanged unless it is the changed one.
C1_FullRecordSubmitted ==
    [][ Len(calls') > Len(calls) =>
          LET c == calls'[Len(calls')]
              current == data.schedules[c.side][c.day]["alarm"]
          IN  /\ Len(c.requests) = 1
              /\ \A k \in DOMAIN current :
                    /\ k \in DOMAIN SubmittedAlarm(c)
                    /\ k \notin DOMAIN c.alarm_data
                          => SubmittedAlarm(c)[k] = current[k]
              /\ \A k \in DOMAIN c.alarm_data :
                    SubmittedAlarm(c)[k] = c.alarm_data[k]
      ]_vars

\* C9: set_alarm(side, day, u, c) submits exactly one set_schedules call;
\* its payload addresses only {side: {day: {alarm: m}}}, m has the keys of c
\* and the keys of u, m[k] = u[k] for k in u and m[k] = c[k] for every other
\* key of c.
C9_SetAlarmMerges ==
    \A i \in DOMAIN calls :
        LET c == calls[i]
            base == IF IsNone(c.current_alarm) THEN EmptyDict ELSE c.current_alarm
            u == c.alarm_data
        IN  /\ Len(c.requests) = 1
            /\ DOMAIN c.requests[1] = {c.side}
            /\ DOMAIN c.requests[1][c.side] = {c.day}
            /\ DOMAIN c.requests[1][c.side][c.day] = {"alarm"}
            /\ DOMAIN SubmittedAlarm(c) = DOMAIN base \cup DOMAIN u
            /\ \A k \in DOMAIN u : SubmittedAlarm(c)[k] = u[k]
            /\ \A k \in DOMAIN base \ DOMAIN u : SubmittedAlarm(c)[k] = base[k]

\* the duration of the example alarm has been set to 15: the payload is the
\* example alarm with duration 15
C9_Witness ==
    \E i \in DOMAIN calls :
        /\ calls[i].handler = "alarm_duration.set"
        /\ calls[i].current_alarm = ExampleAlarm
        /\ calls[i].alarm_data = [duration |-> 15]
        /\ SubmittedAlarm(calls[i]) = [ExampleAlarm EXCEPT !.duration = 15]

---------------------------------------------------------------------------
(* Claims about the snapshot under reads and writes *)

\* C12: no derivation and no write action mutates the published snapshot:
\* every step taken while no refresh is in flight (an evaluation of the
\* active day, an override check, the next alarm, the health rollup, the gain;
\* an alarm, settings or device-status write and its answer) leaves every
\* resource of the snapshot as it was, the alarm record handed to set_alarm
\* as merge base included.
C12_SnapshotImmutable ==
    [][ (cycle.pc = "idle" /\ cycle'.pc = "idle") => data' = data ]_vars

\* the duration of the left Monday alarm has been written and the server has
\* stored it, the next alarm has been evaluated since, and the snapshot still
\* holds the record that was the merge base
C12_Witness ==
    /\ \E i \in DOMAIN calls :
          /\ calls[i].handler = "alarm_duration.set"
          /\ calls[i].status = "ok"
          /\ calls[i].current_alarm = ExampleAlarm
    /\ remote.schedules["left"]["monday"]["alarm"]
          = [ExampleAlarm EXCEPT !.duration = 15]
    /\ data.schedules["left"]["monday"]["alarm"] = ExampleAlarm
    /\ ret.op = "next_alarm_datetime"

---------------------------------------------------------------------------
(* Claims about the suppression predicates over time and over the overrides *)

RawTempOverride(side) ==
    IF side \in DOMAIN data.settings
    THEN data.settings[side].scheduleOverrides.temperatureSchedules
    ELSE EmptyDict

\* the override record the evaluation e was about
RawOverrideOf(e) ==
    IF e.op = "is_alarm_disabled_tonight"
    THEN RawAlarmOverride(e.side) ELSE RawTempOverride(e.side)

SuppressionOps ==
    {"is_alarm_disabled_tonight", "is_temp_schedule_disabled_tonight"}

\* the override o has an expiresAt timestamp that the instant c has reached
ExpiredAt(o, c) ==
    /\ "expiresAt" \in DOMAIN o
    /\ o.expiresAt.kind = "aware"
    /\ o.expiresAt.wall - o.expiresAt.off <= c

\* C13: expiry needs no timer, write or refresh: with the snapshot held
\* fixed, an evaluation of is_alarm_disabled_tonight or
\* is_temp_schedule_disabled_tonight at or after the override's expiresAt
\* gives false, and an evaluation that follows one that gave false for the
\* same side gives false as well (an override does not become active again
\* as time advances).
C13_ExpiryByEvaluation ==
    [][ (ret'.op \in SuppressionOps /\ data' = data)
          => ( /\ ExpiredAt(RawOverrideOf(ret'), ret'.n1)
                     => ret'.val = RBool(FALSE)
               /\ ( /\ ret.op = ret'.op /\ ret.side = ret'.side
                    /\ ret.n1 <= ret'.n1
                    /\ ret.val = RBool(FALSE) )
                     => ret'.val = RBool(FALSE) )
      ]_vars

\* the temperature override of the left side, disabled with an expiresAt one
\* minute after the start, has been evaluated at the very minute it expires:
\* it is inactive, no step but a tick of the clock having been taken
C13_Witness ==
    /\ ret.op = "is_temp_schedule_disabled_tonight"
    /\ ret.side = "left"
    /\ DOMAIN RawTempOverride("left") = {"disabled", "expiresAt"}
    /\ RawTempOverride("left").disabled
    /\ RawTempOverride("left").expiresAt.kind = "aware"
    /\ RawTempOverride("left").expiresAt.wall
          - RawTempOverride("left").expiresAt.off = 389 - tz + 1
    /\ ret.n1 = 389 - tz + 1
    /\ ret.val = RBool(FALSE)

\* C14: temperature-schedule suppression applies the activity rule of alarm
\* suppression to the side's own temperatureSchedules override alone, and
\* alarm suppression applies it to the side's own alarm override alone: the
\* result is the rule's value on that one record, whatever the side's other
\* override and the other side's overrides hold.
C14_SameRuleOwnOverride ==
    /\ ret.op = "is_temp_schedule_disabled_tonight"
          => ret.val = RBool(ActiveOverrideAt(RawTempOverride(ret.side), ret.n1))
    /\ ret.op = "is_alarm_disabled_tonight"
          => ret.val = RBool(ActiveOverrideAt(RawAlarmOverride(ret.side), ret.n1))

\* temperature schedules of the left side are suppressed while its alarm is
\* not, and the right side has an active alarm override but no temperature
\* override
C14_Witness ==
    /\ ret.op = "is_temp_schedule_disabled_tonight"
    /\ ret.side = "left"
    /\ ret.val = RBool(TRUE)
    /\ ~ActiveOverrideAt(RawAlarmOverride("left"), ret.n1)
    /\ "disabled" \in DOMAIN RawAlarmOverride("left")
    /\ ActiveOverrideAt(RawAlarmOverride("right"), ret.n1)
    /\ RawTempOverride("right") = EmptyDict

---------------------------------------------------------------------------
(* Claims about the clock passing noon during a call *)

\* C15: whenever next_alarm_datetime(side) returns an instant, the weekday of
\* its calendar date is the day-of-week key of the schedule entry whose alarm
\* was used to compute it, also when the clock passes 12:00 during the call.
C15_DateMatchesScheduleDay ==
    (ret.op = "next_alarm_datetime" /\ ret.val.kind = "datetime")
        => DayName(ret.val.wall) = ActiveDayAt(ret.n1)

\* C16: for every alarm-field write that has a merge base, the base is the
\* snapshot's alarm record of exactly the (side, day) the write addresses:
\* the day key sent to set_alarm and the day key under which the base was
\* looked up are the same active schedule day, also when the clock passes
\* 12:00 between the two lookups.
C16_BaseOfAddressedDay ==
    \A i \in DOMAIN calls :
        (calls[i].path = "/api/schedules" /\ ~IsNone(calls[i].current_alarm))
            => ( /\ calls[i].current_alarm
                       = data.schedules[calls[i].side][calls[i].day]["alarm"]
                 /\ ActiveDayAt(calls[i].n2) = calls[i].day )

---------------------------------------------------------------------------
(* Claims about the outcome of a write *)

\* C17: when the remote call of a write action (alarm, settings or
\* device-status update) fails, the failure is raised to the caller, the call
\* was issued exactly once and is not issued again, and the action requests
\* no refresh; when it succeeds, the refresh is requested once the write has
\* completed, never before.
C17_WriteOutcome ==
    [][ /\ \A i \in DOMAIN calls' :
              /\ Len(calls'[i].requests) = 1
              /\ calls'[i].status = "failed" => calls'[i].exc \in RequestErrors
              /\ calls'[i].status # "failed" => calls'[i].exc = ""
        /\ \A i \in DOMAIN calls :
              (calls[i].status = "sent" /\ calls'[i].status = "failed")
                  => ( /\ cycle' = cycle
                       /\ remote' = remote
                       /\ calls'[i].requests = calls[i].requests )
        /\ \A i \in DOMAIN calls :
              calls[i].status \in {"ok", "failed"} => calls'[i] = calls[i]
        /\ (cycle'.requested /\ ~cycle.requested)
              => \E i \in DOMAIN calls :
                    calls[i].status = "sent" /\ calls'[i].status = "ok"
        /\ (\A i \in DOMAIN calls' : calls'[i].status # "ok")
              => ~cycle'.requested
      ]_vars

\* the settings write of the away-mode switch has failed with a connection
\* error: it is raised, the server's settings are as they were and no
\* refresh has been requested
C17_Witness ==
    /\ \E i \in DOMAIN calls :
          /\ calls[i].handler = "away_mode.turn_on"
          /\ calls[i].path = "/api/settings"
          /\ calls[i].status = "failed"
          /\ calls[i].exc = "FreeSleepConnectionError"
    /\ ~cycle.requested
    /\ remote.settings = data.settings

---------------------------------------------------------------------------
(* Claims about the last sleep record *)

\* the optional step that fetches the sleep records of side
SleepStep(side) ==
    CHOOSE i \in 1..Len(OptionalSteps) :
        OptionalSteps[i] = [side |-> side, what |-> "sleep"]

\* C18: for every side, the published snapshot's last-sleep record is the
\* last element of the list the sleep-records fetch of its cycle returned;
\* an empty list gives absent, without an error, and no other element of
\* the list is selected.
C18_LastSleepIsLastRecord ==
    (cycle.pc = "idle" /\ cycle.resp # << >>)
        => \A side \in Sides :
              LET answer == cycle.resp[SleepStep(side)]
                  records == answer.body
              IN  answer.exc = ""
                    => ( /\ cycle.outcome = "ok"
                         /\ records = << >> => data.last_sleep[side] = PyNone
                         /\ records # << >>
                               => /\ data.last_sleep[side] = records[Len(records)]
                                  /\ \A j \in 1..(Len(records) - 1) :
                                        records[j] # records[Len(records)]
                                          => data.last_sleep[side] # records[j] )

\* a cycle fetched two sleep records for the left side and none for the
\* right: the snapshot holds the second of the left and nothing for the right
C18_Witness ==
    /\ cycle.pc = "idle" /\ cycle.outcome = "ok"
    /\ cycle.resp[SleepStep("left")] = [exc |-> "", body |-> << [id |-> 1], [id |-> 2] >>]
    /\ data.last_sleep["left"] = [id |-> 2]
    /\ cycle.resp[SleepStep("right")] = [exc |-> "", body |-> << >>]
    /\ data.last_sleep["right"] = PyNone

---------------------------------------------------------------------------
(* Claims about the order of the fetches of a cycle *)

\* the gathered fetches that have been issued and not answered
OutstandingRequired == IF cycle.pc = "gather" THEN cycle.pending ELSE {}

\* the optional fetches that have been issued and not answered
OutstandingOptional == IF cycle.pc = "optional" THEN {cycle.step} ELSE {}

\* C19 as stated: the optional per-side fetches run concurrently with each
\* other and with the required fetches: a cycle issues them together with
\* the required ones, so that when a cycle starts optional fetches (more than
\* one) are outstanding while required fetches are outstanding.
C19_OptionalConcurrent ==
    [][ (cycle.pc = "idle" /\ cycle'.pc # "idle")
          => ( /\ OutstandingRequired' # {}
               /\ Cardinality(OutstandingOptional') >= 2 )
      ]_vars

\* C19 as amended: the optional fetches run one at a time and after the
\* required ones: an optional fetch is outstanding only when every gathered
\* fetch has been answered, at most one optional fetch is outstanding at a
\* time, and it is issued when the ones before it in the order left vitals,
\* left sleep, right vitals, right sleep have been answered.
C19_OptionalSequential ==
    /\ Cardinality(OutstandingOptional) <= 1
    /\ OutstandingRequired # {} => OutstandingOptional = {}
    /\ \A i \in OutstandingOptional :
          /\ DOMAIN cycle.got = {Gathered[k] : k \in 1..Len(Gathered)}
          /\ cycle.pending = {}
          /\ Len(cycle.resp) = i - 1
          /\ i \in 1..Len(OptionalSteps)

\* the vitals fetch of the right side is outstanding: every gathered fetch
\* and both optional fetches of the left side have been answered
C19_Witness ==
    /\ OutstandingOptional = {3}
    /\ OptionalSteps[3] = [side |-> "right", what |-> "vitals"]
    /\ OutstandingRequired = {}
    /\ Len(cycle.resp) = 2

---------------------------------------------------------------------------
(* Claims about what a refresh cycle does to the server *)

\* the resources of the server that only a write of the integration changes
WrittenResources == {"device_status", "settings", "schedules", "services"}

\* C21: a refresh cycle, whether it succeeds or fails, issues only reads on
\* the server (the six gathered reads and the per-side vitals and sleep
\* reads) and no state-changing request: no step of a cycle changes a
\* resource of the server or sends a write, so the server's device status,
\* settings, schedules and services stay as they were over any number of
\* cycles.
C21_RefreshOnlyReads ==
    [][ /\ (cycle' # cycle) => (remote' = remote /\ calls' = calls)
        /\ \A k \in WrittenResources : remote'[k] = remote[k]
      ]_vars

\* a cycle has published a snapshot with a changed presence and a later
\* cycle has failed after its settings fetch: the server's settings are the
\* ones the first refresh read
C21_Witness ==
    /\ cycle.outcome = "UpdateFailed"
    /\ "settings" \in DOMAIN cycle.got
    /\ data.presence # FirstRefresh(RemoteInput(DefaultAlarm, << >>)).presence
    /\ remote.settings = data.settings
    /\ remote.settings = cycle.got["settings"]

---------------------------------------------------------------------------
(* SpecGain: the gain of both sides is set and read back through a refresh *)

\* the refresh that async_request_refresh() has asked for starts
RequestedRefresh ==
    /\ cycle.requested
    /\ StartCycle

\* a refresh cycle in which no fetch fails
RefreshSteps ==
    \/ RequestedRefresh
    \/ \E r \in DOMAIN remote : RequiredFetchOk(r)
    \/ OptionalFetchDone("")

\* device-status resources: without a settings map, with one that has no
\* gain, with the gain of the left side, with both gains
DeviceStatusInputs ==
    { [isPriming |-> FALSE],
      [isPriming |-> FALSE, settings |-> [ledBrightness |-> 50]],
      [isPriming |-> FALSE, settings |-> [gainLeft |-> 80]],
      [isPriming |-> FALSE, settings |-> [gainLeft |-> 80, gainRight |-> 120]] }

InitGain ==
    /\ tz = 60
    /\ clock = 780 - tz
    /\ \E ds \in DeviceStatusInputs :
          remote = [RemoteInput(DefaultAlarm, << >>) EXCEPT !.device_status = ds]
    /\ data = FirstRefresh(remote)
    /\ cycle = IdleCycle
    /\ calls = << >>
    /\ ret = NoRet

NextGain ==
    \/ \E side \in Sides : EvalGain(side)
    \/ \E side \in Sides, v \in GainInputs : GainSet(side, v)
    \/ \E i \in DOMAIN calls : WriteDone(i)
    \/ \E i \in DOMAIN calls : WriteFail(i, "FreeSleepApiError")
    \/ RefreshSteps

SpecGain == InitGain /\ [][NextGain]_vars

---------------------------------------------------------------------------
(* Claims about the gain *)

\* "gain" + the capitalised side
GainKey(side) == IF side = "left" THEN "gainLeft" ELSE "gainRight"

\* the gain a device-status resource holds for a side, 100 when the settings
\* map or the key is absent
StoredGain(device_status, side) ==
    IF "settings" \notin DOMAIN device_status THEN 100
    ELSE IF GainKey(side) \notin DOMAIN device_status.settings THEN 100
    ELSE device_status.settings[GainKey(side)]

\* C22: gain(s) is the value under "gain" + capitalised side (gainLeft,
\* gainRight) in the "settings" of the device status, and 100 when the key or
\* the settings map is absent; set_gain(s, g) writes that key and no other,
\* so that once the server has stored the write its device status, and every
\* snapshot that is refreshed from it, gives g for s and what it gave before
\* for the other side.
C22_GainRoundTrip ==
    [][ /\ (ret'.op = "gain" /\ ret' # ret)
              => ret'.val = RInt(StoredGain(data.device_status, ret'.side))
        /\ \A i \in DOMAIN calls' :
              calls'[i].handler = "gain.set"
                  => \E g \in GainInputs :
                        calls'[i].requests
                            = << [settings |->
                                    [k \in {GainKey(calls'[i].side)} |-> g]] >>
        /\ \A i \in DOMAIN calls :
              ( /\ calls[i].handler = "gain.set"
                /\ calls[i].status = "sent" /\ calls'[i].status = "ok" )
                  => LET s == calls[i].side
                         g == calls[i].requests[1].settings[GainKey(s)]
                     IN  /\ StoredGain(remote'.device_status, s) = g
                         /\ StoredGain(remote'.device_status, OtherSide(s))
                               = StoredGain(remote.device_status, OtherSide(s))
                         /\ gain(FirstRefresh(remote'), s) = g
                         /\ gain(FirstRefresh(remote'), OtherSide(s))
                               = gain(FirstRefresh(remote), OtherSide(s))
      ]_vars

\* the gain of the right side has been set to 60 on a server that held only
\* the gain of the left; after the refresh the right side reads 60 and the
\* snapshot holds 80 for the left
C22_Witness ==
    /\ \E i \in DOMAIN calls :
          /\ calls[i].handler = "gain.set" /\ calls[i].side = "right"
          /\ calls[i].status = "ok"
    /\ cycle.pc = "idle" /\ cycle.outcome = "ok"
    /\ data.device_status = remote.device_status
    /\ data.device_status.settings = [gainLeft |-> 80, gainRight |-> 60]
    /\ ret = Returned("gain", "right", clock, clock, clock, RInt(60))

\* the gain of the left side has been read from a snapshot whose device
\* status has no settings map: 100
C22_WitnessDefault ==
    /\ ret.op = "gain" /\ ret.side = "left"
    /\ "settings" \notin DOMAIN data.device_status
    /\ ret.val = RInt(100)

---------------------------------------------------------------------------
(* SpecDisable: Alarm Disable Tonight is turned on once, at several times
   of a Monday, and read back through the refresh it asks for *)

\* a refresh cycle in which no fetch fails and the gathered fetches are
\* answered in the order they were issued
RefreshInOrder ==
    \/ RequestedRefresh
    \/ \E i \in 1..Len(Gathered) :
          /\ Gathered[i] \in cycle.pending
          /\ \A j \in 1..(i - 1) : Gathered[j] \notin cycle.pending
          /\ RequiredFetchOk(Gathered[i])
    \/ OptionalFetchDone("")

\* local wall-clock instants of the Monday: 06:29, 06:32, 07:00, 11:59,
\* 12:00, 13:20
DisableSamples == {389, 392, 420, 719, 720, 800}

\* the clock has advanced less than two evaluations' worth past the sample
\* the behaviour started at
NearSample ==
    \E w \in DisableSamples :
        /\ w <= clock + tz
        /\ clock + tz < w + 2 * MaxSkew

\* alarms of the Monday and the Tuesday: enabled, with any time string or
\* without one
TonightAlarmInputs ==
    { [enabled |-> TRUE, vibrationIntensity |-> 50] }
    \cup { [enabled |-> TRUE, time |-> t, vibrationIntensity |-> 50] :
               t \in TimeInputs }

InitDisable ==
    /\ tz \in TzOffsets
    /\ \E w \in DisableSamples : clock = w - tz
    /\ \E a \in TonightAlarmInputs : remote = RemoteInput(a, << >>)
    /\ data = FirstRefresh(remote)
    /\ cycle = IdleCycle
    /\ calls = << >>
    /\ ret = NoRet

NextDisable ==
    \/ calls = << >> /\ NearSample /\ AlarmDisableTonightTurnOn("left")
    \/ \E i \in DOMAIN calls : WriteDone(i)
    \/ \E i \in DOMAIN calls : WriteFail(i, "FreeSleepConnectionError")
    \/ RefreshInOrder
    \/ EvalAlarmDisabled("left")
    \/ NearSample /\ EvalNextAlarm("left")

SpecDisable == InitDisable /\ [][NextDisable]_vars

---------------------------------------------------------------------------
(* Claims about Alarm Disable Tonight *)

\* the alarm override a call of an override handler submits
SubmittedOverride(c) == c.requests[1][c.side]["scheduleOverrides"]["alarm"]

\* C23: turning on Alarm Disable Tonight writes the alarm override
\* {disabled: true, timeOverride: "", expiresAt: A + 2 minutes}, A being the
\* noon-crossover calendar date at the tonight alarm's HH:MM in the
\* configured time zone; with a tonight alarm that has no time or a time
\* that cannot be parsed, no write and no refresh request is issued and the
\* server stays as it is.  The alarm is the one of the instant it was read
\* (n1) and the date the one of the instant the clock was read for it (n2).
C23_DisableTonightWrite ==
    [][ (ret' # ret /\ ret'.op = "alarm_disable_tonight.turn_on")
          => LET side == ret'.side
                 t == AlarmTime(RawActiveAlarm(side, ret'.n1))
             IN  /\ WellFormedTime(t)
                       => /\ Len(calls') = Len(calls) + 1
                          /\ calls'[Len(calls')].path = "/api/settings"
                          /\ calls'[Len(calls')].requests
                               = << [s \in {side} |->
                                      [scheduleOverrides |->
                                        [alarm |->
                                          [ disabled |-> TRUE,
                                            timeOverride |-> EmptyStr,
                                            expiresAt |->
                                              IsoAware(
                                                CrossoverDateAt(ret'.n2) * 1440
                                                  + t[1].val * 60 + t[2].val + 2,
                                                tz) ]]]] >>
                 /\ (t = EmptyStr \/ MalformedTime(t))
                       => /\ calls' = calls
                          /\ remote' = remote
                          /\ cycle' = cycle
      ]_vars

\* the switch of the left side has been turned on on Monday at 13:20 with
\* the alarm at 06:30: the override written expires on Tuesday at 06:32
C23_Witness ==
    \E i \in DOMAIN calls :
        /\ calls[i].handler = "alarm_disable_tonight.turn_on"
        /\ calls[i].n2 + tz = 800
        /\ AlarmTime(RawActiveAlarm("left", calls[i].n1)) = HHMM(6, 30)
        /\ SubmittedOverride(calls[i])
              = [ disabled |-> TRUE, timeOverride |-> EmptyStr,
                  expiresAt |-> IsoAware(1440 + 392, tz) ]

\* C25: whenever turning on Alarm Disable Tonight has issued its write and a
\* refresh has published a snapshot that holds the written override, the
\* alarm is suppressed from that moment, at whatever time of day the switch
\* was turned on: evaluated at the instant the handler read the clock,
\* is_alarm_disabled_tonight(side) (which the switch shows) is true and
\* next_alarm_datetime(side) is absent.
C25_SuppressedOnceWritten ==
    [][ \A i \in DOMAIN calls :
          ( /\ calls[i].handler = "alarm_disable_tonight.turn_on"
            /\ calls[i].status = "ok"
            /\ RawAlarmOverride(calls[i].side) = SubmittedOverride(calls[i])
            /\ ret' # ret
            /\ ret'.side = calls[i].side
            /\ ret'.n1 = calls[i].n2 /\ ret'.n3 = calls[i].n2 )
          => ( /\ ret'.op = "is_alarm_disabled_tonight"
                    => ret'.val = RBool(TRUE)
               /\ ret'.op = "next_alarm_datetime" => ret'.val = RNone )
      ]_vars

---------------------------------------------------------------------------
(* Claims about the next alarm and the clock *)

\* C28: whenever next_alarm_datetime(side) returns an instant, the instant
\* is not earlier than the evaluation time, for every now and every
\* well-formed alarm time, between the alarm time and 12:00 of the same day
\* and with alarm times at or after 12:00 included.
C28_NextAlarmNotPast ==
    (ret.op = "next_alarm_datetime" /\ ret.val.kind = "datetime")
        => ret.val.wall - ret.val.off >= ret.n1

---------------------------------------------------------------------------
(* SpecTimeTonight: Alarm Time Tonight and the next alarm over one snapshot *)

\* alarm overrides around the instant c that carry a time override: active,
\* expired at c, with an unparsable expiry, without an expiry, with a time
\* that is no HH:MM
TimeOverrideSamples(c) ==
    { [disabled |-> FALSE, timeOverride |-> HHMM(5, 0),
       expiresAt |-> IsoAware(c + 1 + 60, 60)],
      [disabled |-> FALSE, timeOverride |-> HHMM(5, 0),
       expiresAt |-> IsoAware(c, 0)],
      [disabled |-> FALSE, timeOverride |-> HHMM(5, 0), expiresAt |-> IsoGarbage],
      [disabled |-> FALSE, timeOverride |-> HHMM(5, 0), expiresAt |-> IsoNaive(c + 1440)],
      [disabled |-> FALSE, timeOverride |-> HHMM(5, 0)],
      [disabled |-> FALSE, timeOverride |-> << AlphaPart, NumPart(30) >>,
       expiresAt |-> IsoAware(c + 1440, 0)],
      [disabled |-> FALSE, timeOverride |-> EmptyStr, expiresAt |-> IsoEmpty] }

InitTimeTonight ==
    /\ tz \in TzOffsets
    /\ \E w \in LocalSamples : clock = w - tz
    /\ remote = NoRemote
    /\ \E a \in AlarmInputs,
          o \in AlarmOverrideSamples(clock) \cup TimeOverrideSamples(clock) :
          data = DerivationInput(ScheduleInput("left", a),
                                 SettingsInput("left", o, EmptyDict), EmptyDict)
    /\ cycle = IdleCycle
    /\ calls = << >>
    /\ ret = NoRet

\* the time entity is evaluated, and the next alarm after it or alone
NextTimeTonight ==
    \/ ret = NoRet /\ \E side \in Sides : EvalAlarmTimeTonight(side)
    \/ ret.op # "next_alarm_datetime" /\ \E side \in Sides : EvalNextAlarm(side)

SpecTimeTonight == InitTimeTonight /\ [][NextTimeTonight]_vars

---------------------------------------------------------------------------
(* Claims about Alarm Time Tonight *)

\* the override o carries a time override that has not expired at c
TimeOverrideShownAt(o, c) ==
    /\ "timeOverride" \in DOMAIN o /\ o.timeOverride # EmptyStr
    /\ "expiresAt" \in DOMAIN o
    /\ o.expiresAt.kind = "aware"
    /\ o.expiresAt.wall - o.expiresAt.off > c

\* the evaluation e of Alarm Time Tonight shows the time string t
ShowsTime(e, t) ==
    /\ WellFormedTime(t) => e.val = RTime(t[1].val, t[2].val)
    /\ (t = EmptyStr \/ MalformedTime(t)) => e.val = RNone

\* the first half of C29: Alarm Time Tonight shows the override's
\* timeOverride iff timeOverride is non-empty and expiresAt parses to a
\* timestamp strictly later than now, and the schedule time of the active
\* day otherwise
TimeTonightShown(e) ==
    e.op = "alarm_time_tonight" =>
        IF TimeOverrideShownAt(RawAlarmOverride(e.side), e.n1)
        THEN ShowsTime(e, RawAlarmOverride(e.side).timeOverride)
        ELSE ShowsTime(e, AlarmTime(RawActiveAlarm(e.side, e.n2)))

\* C29: the Alarm Time Tonight value and the next alarm agree: Alarm Time
\* Tonight shows the override's timeOverride iff it is non-empty and
\* expiresAt is a timestamp strictly later than now, and the active day's
\* schedule time otherwise; and whenever next_alarm_datetime(side) is
\* present, its local time of day is the value Alarm Time Tonight shows for
\* the same side, snapshot and now.
C29_TimeTonightAgrees ==
    [][ /\ TimeTonightShown(ret')
        /\ ( /\ ret.op = "alarm_time_tonight"
             /\ ret'.op = "next_alarm_datetime"
             /\ ret'.side = ret.side
             /\ ret'.n3 = ret.n1
             /\ ret'.val.kind = "datetime" )
           => ret.val = RTime(HourOf(ret'.val.wall), MinuteOf(ret'.val.wall))
      ]_vars

---------------------------------------------------------------------------
(* SpecLost: the duration and the vibration intensity of the left side's
   alarm are set on a Monday at 13:00, with the refreshes the writes ask for *)

InitLost ==
    /\ tz = 60
    /\ clock = 780 - tz
    /\ remote = RemoteInput(ExampleAlarm, << >>)
    /\ data = FirstRefresh(remote)
    /\ cycle = IdleCycle
    /\ calls = << >>
    /\ ret = NoRet

NextLost ==
    \/ /\ Len(calls) < MaxWrites
       /\ \E v \in DurationInputs :
             IssueAlarmField("alarm_duration.set", "left", [duration |-> v])
    \/ /\ Len(calls) < MaxWrites
       /\ \E v \in IntensityInputs :
             IssueAlarmField("alarm_vibration_intensity.set", "left",
                             [vibrationIntensity |-> v])
    \/ \E i \in DOMAIN calls : WriteDone(i)
    \/ \E i \in DOMAIN calls : WriteFail(i, "FreeSleepApiError")
    \/ RefreshInOrder

SpecLost == InitLost /\ [][NextLost]_vars

---------------------------------------------------------------------------
(* Claims about two alarm writes *)

\* C24: no partial alarm update is lost: for any two alarm-field writes on
\* different fields of the same side and active day, issued in any order
\* and interleaving, the second one before a refresh has published a
\* snapshot that reflects the first included, the server's alarm record
\* holds both changed values once both writes have completed.
C24_NoUpdateLost ==
    \A i, j \in DOMAIN calls :
        ( /\ i # j
          /\ calls[i].status = "ok" /\ calls[j].status = "ok"
          /\ calls[i].side = calls[j].side /\ calls[i].day = calls[j].day
          /\ DOMAIN calls[i].alarm_data \cap DOMAIN calls[j].alarm_data = {} )
        => LET stored == remote.schedules[calls[i].side][calls[i].day]["alarm"]
           IN  /\ \A k \in DOMAIN calls[i].alarm_data :
                     stored[k] = calls[i].alarm_data[k]
               /\ \A k \in DOMAIN calls[j].alarm_data :
                     stored[k] = calls[j].alarm_data[k]

---------------------------------------------------------------------------
(* SpecTempDisable: Temp Schedule Disable Tonight is turned on once, read
   back through the refresh it asks for, and followed to the noon after *)

\* the wall-clock instant of the first 12:00 strictly later than `wall`
NextNoon(wall) == ((wall - 720) \div 1440 + 1) * 1440 + 720

\* local wall-clock instants of the Monday: 00:00, 06:29, 11:59, 12:00,
\* 12:01, 23:59
TempDisableSamples == {0, 389, 719, 720, 721, 1439}

\* time passes, up to a minute around the next local noon, within two days
TimePasses ==
    /\ clock + tz < 2 * 1440
    /\ \E k \in {-1, 0, 1} :
          /\ NextNoon(clock + tz) + k > clock + tz
          /\ clock' = NextNoon(clock + tz) + k - tz
    /\ UNCHANGED <<tz, remote, data, cycle, calls, ret>>

InitTempDisable ==
    /\ tz \in TzOffsets
    /\ \E w \in TempDisableSamples : clock = w - tz
    /\ remote = RemoteInput(DefaultAlarm, << >>)
    /\ data = FirstRefresh(remote)
    /\ cycle = IdleCycle
    /\ calls = << >>
    /\ ret = NoRet

NextTempDisable ==
    \/ calls = << >> /\ TempScheduleDisableTonightTurnOn("left")
    \/ \E i \in DOMAIN calls : WriteDone(i)
    \/ \E i \in DOMAIN calls : WriteFail(i, "FreeSleepConnectionError")
    \/ RefreshInOrder
    \/ EvalTempScheduleDisabled("left")
    \/ EvalTodayKey
    \/ TimePasses

SpecTempDisable == InitTempDisable /\ [][NextTempDisable]_vars

---------------------------------------------------------------------------
(* Claims about Temp Schedule Disable Tonight *)

\* the temperature override a call of an override handler submits
SubmittedTempOverride(c) ==
    c.requests[1][c.side]["scheduleOverrides"]["temperatureSchedules"]

C26_WitnessBefore ==
    /\ \E i \in DOMAIN calls :
          /\ calls[i].handler = "temp_schedule_disable_tonight.turn_on"
          /\ calls[i].n1 + tz = 720
          /\ RawTempOverride("left") = SubmittedTempOverride(calls[i])
    /\ ret.op = "is_temp_schedule_disabled_tonight"
    /\ ret.n1 + tz = 1440 + 719
    /\ ret.val = RBool(TRUE)

---------------------------------------------------------------------------
(* SpecOverrides: the three writers of the alarm override of one side, in
   any sequence, each followed by the refresh it asks for *)

InitOverrides ==
    /\ tz = 60
    /\ \E w \in {389, 720} : clock = w - tz
    /\ remote = RemoteInput(ExampleAlarm, << >>)
    /\ data = FirstRefresh(remote)
    /\ cycle = IdleCycle
    /\ calls = << >>
    /\ ret = NoRet

NextOverrides ==
    \/ NearSample /\ AlarmDisableTonightTurnOn("left")
    \/ AlarmDisableTonightTurnOff("left")
    \/ \E hour \in {5, 22} : AlarmTimeTonightSet("left", hour, 30)
    \/ \E i \in DOMAIN calls : WriteDone(i)
    \/ \E i \in DOMAIN calls : WriteFail(i, "FreeSleepConnectionError")
    \/ RefreshInOrder

SpecOverrides == InitOverrides /\ [][NextOverrides]_vars

---------------------------------------------------------------------------
(* Claims about the alarm override as the three writers leave it *)

\* the alarm override of a side as the server holds it
StoredAlarmOverride(side) == remote.settings[side].scheduleOverrides.alarm

\* the override is a disabled alarm that also carries a time override
DisabledWithTime(o) ==
    /\ Get(o, "disabled", FALSE) = TRUE
    /\ Get(o, "timeOverride", EmptyStr) # EmptyStr

\* C27: after any sequence of Alarm Disable Tonight on, Alarm Disable
\* Tonight off and Alarm Time Tonight writes for a side, no written alarm
\* override, and so neither the override the server holds nor the one of the
\* snapshot, has disabled = true together with a non-empty timeOverride: the
\* time write sets disabled false, the disable write sets timeOverride "",
\* and the turn-off write sets disabled false, timeOverride "" and
\* expiresAt "" together.
C27_NeverDisabledWithTime ==
    /\ \A i \in DOMAIN calls :
          LET o == SubmittedOverride(calls[i])
          IN  /\ DOMAIN o = {"disabled", "timeOverride", "expiresAt"}
              /\ ~DisabledWithTime(o)
              /\ calls[i].handler = "alarm_time_tonight.set"
                    => o.disabled = FALSE /\ o.timeOverride # EmptyStr
              /\ calls[i].handler = "alarm_disable_tonight.turn_on"
                    => o.disabled = TRUE /\ o.timeOverride = EmptyStr
              /\ calls[i].handler = "alarm_disable_tonight.turn_off"
                    => /\ o.disabled = FALSE
                       /\ o.timeOverride = EmptyStr
                       /\ o.expiresAt = IsoEmpty
    /\ ~DisabledWithTime(StoredAlarmOverride("left"))
    /\ ~DisabledWithTime(RawAlarmOverride("left"))
    /\ (\E i \in DOMAIN calls : calls[i].status = "ok")
          => \E i \in DOMAIN calls :
                /\ calls[i].status = "ok"
                /\ StoredAlarmOverride("left") = SubmittedOverride(calls[i])

\* the alarm was disabled for tonight, then a time was set for it: both
\* writes are done, and the server and the snapshot hold the time override
\* with disabled = false
C27_Witness ==
    /\ Len(calls) >= 2
    /\ calls[1].handler = "alarm_disable_tonight.turn_on"
    /\ calls[2].handler = "alarm_time_tonight.set"
    /\ calls[1].status = "ok" /\ calls[2].status = "ok"
    /\ StoredAlarmOverride("left") = SubmittedOverride(calls[2])
    /\ RawAlarmOverride("left") = SubmittedOverride(calls[2])
    /\ cycle.pc = "idle"

---------------------------------------------------------------------------
(* Tap gestures: select.py *)

GESTURES == << "doubleTap", "tripleTap", "quadTap" >>

Gestures == {GESTURES[i] : i \in 1..Len(GESTURES)}

\* the option labels and their API payloads
TAP_OPTIONS ==
    ( "Decrease Temperature" :>
          [type |-> "temperature", change |-> "decrement", amount |-> 1] )
    @@ ( "Increase Temperature" :>
          [type |-> "temperature", change |-> "increment", amount |-> 1] )
    @@ ( "Dismiss Alarm" :>
          [type |-> "alarm", behavior |-> "dismiss", snoozeDuration |-> 60,
           inactiveAlarmBehavior |-> "power"] )
    @@ ( "Snooze Alarm" :>
          [type |-> "alarm", behavior |-> "snooze", snoozeDuration |-> 60,
           inactiveAlarmBehavior |-> "power"] )

\* a variant that tells the label from the type alone
tap_config_to_label_by_type(config) ==
    IF Get(config, "type", "") = "alarm"
    THEN "Dismiss Alarm"
    ELSE "Decrease Temperature"

\* _tap_config_to_label
tap_config_to_label(config) ==
    LET tap_type == Get(config, "type", "")
    IN  IF tap_type = "temperature"
        THEN IF Get(config, "change", "decrement") = "decrement"
             THEN "Decrease Temperature"
             ELSE "Increase Temperature"
        ELSE IF tap_type = "alarm"
        THEN IF Get(config, "behavior", "dismiss") = "snooze"
             THEN "Snooze Alarm"
             ELSE "Dismiss Alarm"
        ELSE "Decrease Temperature"

\* FreeSleepData.tap_config
tap_config(d, side, gesture) ==
    Get(Get(side_settings(d, side), "taps", EmptyDict), gesture, EmptyDict)

\* FreeSleepTapGestureSelect.current_option
current_option(d, side, gesture) ==
    LET config == tap_config(d, side, gesture)
    IN  IF config = EmptyDict THEN RNone ELSE RStr(tap_config_to_label(config))

\* FreeSleepApi.set_tap_config: set_settings({side: {"taps": {gesture: config}}})
set_tap_config(side, gesture, config) ==
    << [s \in {side} |-> [taps |-> [g \in {gesture} |-> config]]] >>

TapCall(side, gesture, option, requests) ==
    [ handler |-> "tap_gesture.select_option", side |-> side,
      gesture |-> gesture, option |-> option, path |-> "/api/settings",
      requests |-> requests, status |-> "sent", exc |-> "" ]

\* the outcome of an evaluation or a handler of the entity of a gesture
ReturnedFor(op, side, gesture, val) ==
    Returned(op, side, clock, clock, clock, val) @@ [gesture |-> gesture]

\* FreeSleepTapGestureSelect.async_select_option: a label without a payload
\* returns before anything is awaited
SelectOption(side, gesture, option) ==
    /\ Len(calls) < MaxWrites
    /\ ret' = ReturnedFor("tap_gesture.select_option", side, gesture,
                          RStr(option))
    /\ calls' = IF option \in DOMAIN TAP_OPTIONS
                THEN Append(calls,
                        TapCall(side, gesture, option,
                            set_tap_config(side, gesture, TAP_OPTIONS[option])))
                ELSE calls
    /\ UNCHANGED <<clock, tz, remote, data, cycle>>

EvalCurrentOption(side, gesture) ==
    /\ ret' = ReturnedFor("current_option", side, gesture,
                          current_option(data, side, gesture))
    /\ UNCHANGED <<clock, tz, remote, data, cycle, calls>>

---------------------------------------------------------------------------
(* SpecTaps: the tap options of the left side are selected, written and
   read back through the refresh the handler asks for; the entities are
   evaluated between the refresh cycles *)

\* the "taps" of a side on the server: none, a stored option of the double tap
TapInputs ==
    { EmptyDict, [doubleTap |-> TAP_OPTIONS["Dismiss Alarm"]] }

\* a label the select entity does not offer
UnknownOption == "Toggle Light"

InitTaps ==
    /\ tz = 0
    /\ clock = 0
    /\ \E t \in TapInputs :
          remote = [ RemoteInput(DefaultAlarm, << >>) EXCEPT
                       !.settings.left =
                           IF t = EmptyDict THEN @ ELSE @ @@ [taps |-> t] ]
    /\ data = FirstRefresh(remote)
    /\ cycle = IdleCycle
    /\ calls = << >>
    /\ ret = NoRet

NextTaps ==
    \/ \E option \in DOMAIN TAP_OPTIONS \cup {UnknownOption} :
          SelectOption("left", "doubleTap", option)
    \/ calls = << >> /\ SelectOption("left", "tripleTap", "Snooze Alarm")
    \/ \E i \in DOMAIN calls : WriteDone(i)
    \/ \E i \in DOMAIN calls : WriteFail(i, "FreeSleepConnectionError")
    \/ RefreshInOrder
    \/ /\ cycle.pc = "idle"
       /\ \E gesture \in {"doubleTap", "tripleTap"} :
             EvalCurrentOption("left", gesture)

SpecTaps == InitTaps /\ [][NextTaps]_vars

---------------------------------------------------------------------------
(* Claims about the tap options *)

\* the snapshot's config of the gesture of call c holds every key of the
\* payload of c with the payload's value
ReflectsWrite(d, c) ==
    LET config == tap_config(d, c.side, c.gesture)
    IN  \A k \in DOMAIN TAP_OPTIONS[c.option] :
            k \in DOMAIN config /\ config[k] = TAP_OPTIONS[c.option][k]

\* C30: for every option label L of TAP_OPTIONS, selecting L writes
\* TAP_OPTIONS[L] for exactly the (side, gesture) of the entity, and
\* _tap_config_to_label(TAP_OPTIONS[L]) = L, so that once a refresh has
\* published a snapshot that reflects the write, current_option of the
\* entity is L; selecting a label that is not in TAP_OPTIONS issues no write
\* and asks for no refresh.
C30_TapOptionsRoundTrip ==
    [][ /\ \A i \in DOMAIN calls' :
              LET c == calls'[i]
              IN  /\ c.option \in DOMAIN TAP_OPTIONS
                  /\ c.requests
                       = << [s \in {c.side} |->
                               [taps |-> [g \in {c.gesture} |->
                                             TAP_OPTIONS[c.option]]]] >>
                  /\ tap_config_to_label(TAP_OPTIONS[c.option]) = c.option
                  /\ ( /\ ret' # ret
                       /\ ret'.op = "current_option"
                       /\ ret'.side = c.side /\ ret'.gesture = c.gesture
                       /\ ReflectsWrite(data', c) )
                     => ret'.val = RStr(c.option)
        /\ (ret' # ret /\ ret'.op = "tap_gesture.select_option")
              => IF ret'.val.s \in DOMAIN TAP_OPTIONS
                 THEN /\ Len(calls') = Len(calls) + 1
                      /\ calls'[Len(calls')].option = ret'.val.s
                      /\ calls'[Len(calls')].side = ret'.side
                      /\ calls'[Len(calls')].gesture = ret'.gesture
                 ELSE calls' = calls /\ cycle' = cycle /\ remote' = remote
      ]_vars

\* "Snooze Alarm" was selected for the double tap over a stored "Dismiss
\* Alarm"; the write is done, the refresh has published it, and the entity
\* shows "Snooze Alarm"
C30_Witness ==
    /\ \E i \in DOMAIN calls :
          /\ calls[i].option = "Snooze Alarm"
          /\ calls[i].gesture = "doubleTap"
          /\ calls[i].status = "ok"
          /\ ReflectsWrite(data, calls[i])
    /\ cycle.pc = "idle"
    /\ ret.op = "current_option"
    /\ ret.gesture = "doubleTap"
    /\ ret.val = RStr("Snooze Alarm")

\* a label that is not offered was selected: nothing was written
C30_WitnessUnknown ==
    /\ ret.op = "tap_gesture.select_option"
    /\ ret.val = RStr(UnknownOption)
    /\ calls = << >>
    /\ ~cycle.requested

=============================================================================
